---- MODULE Spec2Model ----
(***************************************************************************)
(* Model of the robotics simulation backend: the in-memory session store   *)
(* (server/services/simulation/state.ts), the tool dispatcher              *)
(* (server/services/simulation/index.ts) and the event generators          *)
(* (server/services/simulation/failures.ts).                               *)
(*                                                                         *)
(* Numbers: physical quantities are fixed-point integers in hundredths     *)
(* (friction 0.5 is 50, gravity 9.81 is 981, pid_p 1.0 is 100), durations  *)
(* are in hundredths of a second, angles and temperatures in tenths.       *)
(* A JavaScript value that may be undefined is a sequence of length at     *)
(* most one: <<>> is undefined, <<v>> is the value v.  An argument bag is  *)
(* a record holding exactly the keys the caller supplied.                  *)
(***************************************************************************)
EXTENDS Integers, Sequences, FiniteSets, Bags, TLC

VARIABLES
    sessions,   \* InMemoryStateStore.sessions: session id -> SessionState
    motorMaps,  \* heap of Map<string, MotorParams> objects: reference -> joint id -> params
    calls,      \* tool calls suspended at their await sleep(...): a bag of calls
    running,    \* the calls in the middle of their synchronous section
    started,    \* number of tool calls started so far
    returned,   \* the envelope most recently returned by execute
    motorLog,   \* history: the last two update_motor_params calls that reached the store
    addLog,     \* history: session id -> every run handed to addRun, in order
    simIn,      \* the call being followed through the simulation pipeline
    simPc,      \* where that call is
    simPhysics, \* the physics config handed to the event generator
    frameCount, \* frames.length
    telemetry,  \* frame index -> frame, for the frames the sampler has read
    idx,        \* the sampling loop's i
    spins,      \* history: iterations that left i where it was
    events,     \* the generator's local events array
    simOut,     \* what the generator returned and the envelope of the call
    now,        \* Date.now(), in the time unit of the specification that advances it
    lastAccessed \* session id -> SessionState.last_accessed, followed where time advances

svcVars == <<calls, running, started, returned, motorLog>>
storeVars == <<sessions, motorMaps>>
simVars == <<simIn, simPc, simPhysics, frameCount, telemetry, idx, spins, events, simOut>>
clockVars == <<now, lastAccessed>>
vars == <<sessions, motorMaps, calls, running, started, returned, motorLog, addLog,
          simIn, simPc, simPhysics, frameCount, telemetry, idx, spins, events, simOut,
          now, lastAccessed>>

----------------------------------------------------------------------------
(* Bounds of the model *)

MaxCalls == 3       \* tool calls started in one behaviour
MaxAdds == 12       \* addRun calls in one behaviour of the store
MaxSpins == 2       \* sampling iterations followed while i stays where it was
MaxRequests == 2    \* /execute-tool requests in one behaviour of the route
MaxFrames == 4      \* frames in a sequence handed to an analyzer
MaxRecEvents == 3   \* events in a list handed to a recommendation generator
MaxSeconds == 5     \* seconds of wall-clock time followed while runs are created
MaxRunCalls == 2    \* run_simulation calls followed while runs are created
MaxTtlPeriods == 1  \* session lifetimes of wall-clock time followed by the eviction model
MaxStoredRuns == 1  \* runs added to one session while evictions are followed
MaxFlightSeconds == 2  \* longest flight whose telemetry stream is followed

----------------------------------------------------------------------------
(* JavaScript helpers *)

Max(a, b) == IF a >= b THEN a ELSE b
Min(a, b) == IF a <= b THEN a ELSE b

\* args.k for a possibly absent key
Arg(args, k) == IF k \in DOMAIN args THEN <<args[k]>> ELSE <<>>

\* object spread { ...a, ...b }: every own key of b, undefined values included, wins
Spread(a, b) ==
    [k \in (DOMAIN a) \cup (DOMAIN b) |-> IF k \in DOMAIN b THEN b[k] ELSE a[k]]

\* Map.prototype.set
MapSet(m, k, v) == [x \in (DOMAIN m) \cup {k} |-> IF x = k THEN v ELSE m[x]]

\* truthiness of a string
Truthy(s) == s # ""

----------------------------------------------------------------------------
(* types.ts defaults *)

HEXAPOD_JOINTS ==
    { "leg_1_coxa", "leg_1_femur", "leg_1_tibia",
      "leg_2_coxa", "leg_2_femur", "leg_2_tibia",
      "leg_3_coxa", "leg_3_femur", "leg_3_tibia",
      "leg_4_coxa", "leg_4_femur", "leg_4_tibia",
      "leg_5_coxa", "leg_5_femur", "leg_5_tibia",
      "leg_6_coxa", "leg_6_femur", "leg_6_tibia" }

DEFAULT_PHYSICS ==
    [ gravity |-> 981, friction_coefficient |-> 50,
      terrain_type |-> "concrete", terrain_roughness |-> 30 ]

DEFAULT_MOTOR_PARAMS ==
    [ torque_limit |-> <<500>>, pid_p |-> <<100>>, pid_i |-> <<10>>,
      pid_d |-> <<5>>, max_velocity |-> <<500>> ]

TERRAINS == {"sand", "concrete", "grass", "gravel"}

\* the number of runs a session keeps
RUN_HISTORY_LIMIT == 10

----------------------------------------------------------------------------
(* InMemoryStateStore.  A store value st is [sessions, heap]: the sessions *)
(* map and the heap of motor Map objects the sessions and runs refer to.   *)

Store == [sessions |-> sessions, heap |-> motorMaps]

\* mutant: one module-level Map serves every session
SharedMapRef(st) == 1

\* new Map(): the next unused reference
NewMapRef(st) == Cardinality(DOMAIN st.heap) + 1

\* createDefaultSession: a fresh motors Map holding a fresh params object per
\* joint, and a fresh copy of DEFAULT_PHYSICS
createDefaultSession(st, sessionId) ==
    LET ref == NewMapRef(st)
        motors == [j \in HEXAPOD_JOINTS |-> Spread([joint_id |-> j], DEFAULT_MOTOR_PARAMS)]
    IN  [ sessions |-> [s \in (DOMAIN st.sessions) \cup {sessionId} |->
                          IF s = sessionId
                          THEN [ session_id |-> sessionId,
                                 physics |-> DEFAULT_PHYSICS,
                                 motors |-> ref,
                                 runs |-> <<>>,
                                 current_run |-> <<>> ]
                          ELSE st.sessions[s]],
          heap |-> [r \in (DOMAIN st.heap) \cup {ref} |->
                          IF r = ref THEN motors ELSE st.heap[r]] ]

getOrCreate(st, sessionId) ==
    IF sessionId \in DOMAIN st.sessions THEN st ELSE createDefaultSession(st, sessionId)

\* session.physics = { ...session.physics, ...physics }: a new object each time
updatePhysics(st, sessionId, physics) ==
    LET s1 == getOrCreate(st, sessionId)
    IN  [s1 EXCEPT !.sessions[sessionId].physics = Spread(@, physics)]

\* session.motors.set(jointId, { ...existing, ...params, joint_id }): the Map
\* object itself is written in place
updateMotor(st, sessionId, jointId, params) ==
    LET s1 == getOrCreate(st, sessionId)
        ref == s1.sessions[sessionId].motors
        m == s1.heap[ref]
        existing == IF jointId \in DOMAIN m
                    THEN m[jointId]
                    ELSE Spread([joint_id |-> jointId], DEFAULT_MOTOR_PARAMS)
        updated == Spread(Spread(existing, params), [joint_id |-> jointId])
    IN  [s1 EXCEPT !.heap[ref] = MapSet(m, jointId, updated)]

\* mutant: the oldest runs are kept (slice(0, 10))
FirstRuns(runs) ==
    IF Len(runs) > RUN_HISTORY_LIMIT THEN SubSeq(runs, 1, RUN_HISTORY_LIMIT) ELSE runs

\* runs.slice(-10)
LastRuns(runs) ==
    IF Len(runs) > RUN_HISTORY_LIMIT
    THEN SubSeq(runs, Len(runs) - RUN_HISTORY_LIMIT + 1, Len(runs))
    ELSE runs

addRun(st, sessionId, run) ==
    LET s1 == getOrCreate(st, sessionId)
    IN  [s1 EXCEPT !.sessions[sessionId].runs = LastRuns(Append(@, run)),
                   !.sessions[sessionId].current_run = <<run>>]

\* session?.current_run || session?.runs[session.runs.length - 1]
getLatestRun(st, sessionId) ==
    IF sessionId \notin DOMAIN st.sessions THEN <<>>
    ELSE LET s == st.sessions[sessionId]
         IN  IF s.current_run # <<>> THEN s.current_run
             ELSE IF s.runs # <<>> THEN <<s.runs[Len(s.runs)]>>
             ELSE <<>>

----------------------------------------------------------------------------
(* SimulationService: the tool bodies.  Each returns the store it leaves    *)
(* and either the tool's result or the error it throws.                    *)

createError(code, message, recoverable) ==
    [code |-> code, message |-> message, recoverable |-> recoverable]

\* mutant: only the upper bound is enforced
clampFrictionUpperOnly(x) == Min(100, x)

\* Math.max(0, Math.min(1, friction_coefficient))
clampFriction(x) == Max(0, Min(100, x))

configurePhysics(st, sessionId, args) ==
    LET fricBad == /\ "friction_coefficient" \in DOMAIN args
                   /\ (args.friction_coefficient < 0 \/ args.friction_coefficient > 100)
        a1 == IF fricBad
              THEN [args EXCEPT !.friction_coefficient = clampFriction(@)]
              ELSE args
        w1 == IF fricBad THEN <<"friction_coefficient clamped to valid range [0, 1]">>
              ELSE <<>>
        terrBad == /\ "terrain_type" \in DOMAIN a1
                   /\ Truthy(a1.terrain_type)
                   /\ a1.terrain_type \notin TERRAINS
        a2 == IF terrBad THEN [a1 EXCEPT !.terrain_type = "concrete"] ELSE a1
        w2 == IF terrBad THEN Append(w1, "Unknown terrain type, defaulting to concrete")
              ELSE w1
        s1 == updatePhysics(st, sessionId, a2)
    IN  [ st |-> s1,
          thrown |-> <<>>,
          result |-> [ status |-> IF Len(w2) > 0 THEN "partial" ELSE "success",
                       applied_config |-> s1.sessions[sessionId].physics,
                       warnings |-> w2 ] ]

\* mutant: the session is looked up before the arguments are checked
updateMotorParamsLookupFirst(st, sessionId, args) ==
    IF "joint_id" \notin DOMAIN args \/ ~Truthy(args.joint_id)
    THEN [ st |-> getOrCreate(st, sessionId),
           thrown |-> <<createError("MISSING_PARAM", "joint_id is required", TRUE)>>,
           result |-> <<>> ]
    ELSE LET params == [ torque_limit |-> Arg(args, "torque_limit"),
                         pid_p |-> Arg(args, "pid_p"),
                         pid_i |-> Arg(args, "pid_i"),
                         pid_d |-> Arg(args, "pid_d") ]
             s1 == updateMotor(st, sessionId, args.joint_id, params)
             motor == s1.heap[s1.sessions[sessionId].motors][args.joint_id]
         IN  [ st |-> s1,
               thrown |-> <<>>,
               result |-> [ status |-> "success",
                            joint_id |-> args.joint_id,
                            applied_params |-> motor ] ]

updateMotorParams(st, sessionId, args) ==
    IF "joint_id" \notin DOMAIN args \/ ~Truthy(args.joint_id)
    THEN [ st |-> st,
           thrown |-> <<createError("MISSING_PARAM", "joint_id is required", TRUE)>>,
           result |-> <<>> ]
    ELSE LET params == [ torque_limit |-> Arg(args, "torque_limit"),
                         pid_p |-> Arg(args, "pid_p"),
                         pid_i |-> Arg(args, "pid_i"),
                         pid_d |-> Arg(args, "pid_d") ]
             s1 == updateMotor(st, sessionId, args.joint_id, params)
             motor == s1.heap[s1.sessions[sessionId].motors][args.joint_id]
         IN  [ st |-> s1,
               thrown |-> <<>>,
               result |-> [ status |-> "success",
                            joint_id |-> args.joint_id,
                            applied_params |-> motor ] ]

\* robotType.includes('drone') || includes('uav') || includes('quadcopter') || includes('aerial'),
\* on the robot types the model's callers send
isDrone(args) ==
    /\ "robot_type" \in DOMAIN args
    /\ args.robot_type \in {"drone", "uav", "quadcopter", "aerial"}

\* execute's envelope: the result, or the caught error (kept when it carries a
\* code, wrapped as EXECUTION_ERROR otherwise)
Envelope(call, out) ==
    IF out.thrown = <<>>
    THEN [ session |-> call.session, tool |-> call.tool, args |-> call.args,
           success |-> TRUE, result |-> out.result ]
    ELSE [ session |-> call.session, tool |-> call.tool, args |-> call.args,
           success |-> FALSE,
           error |-> IF "code" \in DOMAIN out.thrown[1]
                     THEN out.thrown[1]
                     ELSE createError("EXECUTION_ERROR", out.thrown[1].message, TRUE) ]

----------------------------------------------------------------------------
(* The callers: the sessions, tools and argument bags the model sends *)

SessionIds == {"sA", "sB"}

ConfigArgs ==
    { [friction_coefficient |-> 150, terrain_type |-> ""],
      [friction_coefficient |-> -50, terrain_type |-> "mud"] }

MotorArgs ==
    { [joint_id |-> "leg_1_coxa", pid_p |-> 200],
      [joint_id |-> "leg_1_coxa", pid_p |-> 300],
      [pid_p |-> 200] }

RunArgs == { <<>>, [robot_type |-> "drone"] }

ToolCalls ==
    [tool : {"configure_physics"}, args : ConfigArgs]
    \cup [tool : {"update_motor_params"}, args : MotorArgs]
    \cup [tool : {"run_simulation"}, args : RunArgs]

\* Math.random().toString(36).substring(2, 6)
RunSuffixes == {"a1b2", "c3d4"}

NoEnvelope == [tool |-> "none"]

----------------------------------------------------------------------------
(* The service as the event loop runs it.  A handler is suspended only at   *)
(* its await sleep(...); everything after it runs to completion before any *)
(* other handler continues.                                                *)

\* mutant: the handlers may be resumed while another one is between its reads
\* and its writes (an await inside the section)
SchedulableAnytime == TRUE

\* the event loop resumes a handler only when no other handler is in the
\* middle of a synchronous section
Schedulable == running = {}

Suspend(call) == calls (+) SetToBag({call})
Resume(call) == calls (-) SetToBag({call})

InitStore ==
    /\ sessions = <<>>
    /\ motorMaps = <<>>
    /\ addLog = [s \in SessionIds |-> <<>>]
    /\ now = 0
    /\ lastAccessed = <<>>

InitService ==
    /\ calls = EmptyBag
    /\ running = {}
    /\ started = 0
    /\ returned = NoEnvelope
    /\ motorLog = <<>>

NoSimInput == [entry |-> "none"]
NoSimOutput == [events |-> <<>>, envelope |-> NoEnvelope]

\* no call is being followed through the pipeline
InitSimIdle ==
    /\ simIn = NoSimInput
    /\ simPc = "idle"
    /\ simPhysics = <<>>
    /\ frameCount = 0
    /\ telemetry = <<>>
    /\ idx = 0
    /\ spins = 0
    /\ events = <<>>
    /\ simOut = NoSimOutput

Init == InitStore /\ InitService /\ InitSimIdle

\* execute, up to the tool body's await sleep(...)
Execute(sessionId, tc) ==
    /\ started < MaxCalls
    /\ Schedulable
    /\ started' = started + 1
    /\ calls' = Suspend([session |-> sessionId, tool |-> tc.tool, args |-> tc.args])
    /\ UNCHANGED <<clockVars, sessions, motorMaps, running, returned, motorLog, addLog, simVars>>

ConfigurePhysics(call) ==
    /\ call.tool = "configure_physics"
    /\ Schedulable
    /\ LET out == configurePhysics(Store, call.session, call.args)
       IN  /\ sessions' = out.st.sessions
           /\ motorMaps' = out.st.heap
           /\ returned' = Envelope(call, out)
    /\ calls' = Resume(call)
    /\ UNCHANGED <<clockVars, running, started, motorLog, addLog, simVars>>

\* the joint's parameters as updateMotor finds them (the defaults for a joint or
\* session that does not exist yet)
MotorBefore(st, sessionId, jointId) ==
    LET s1 == getOrCreate(st, sessionId)
        m == s1.heap[s1.sessions[sessionId].motors]
    IN  IF jointId \in DOMAIN m THEN m[jointId]
        ELSE Spread([joint_id |-> jointId], DEFAULT_MOTOR_PARAMS)

UpdateMotorParams(call) ==
    /\ call.tool = "update_motor_params"
    /\ Schedulable
    /\ LET out == updateMotorParams(Store, call.session, call.args)
       IN  /\ sessions' = out.st.sessions
           /\ motorMaps' = out.st.heap
           /\ returned' = Envelope(call, out)
           /\ motorLog' =
                IF out.thrown # <<>> THEN motorLog
                ELSE LET entry == [ session |-> call.session,
                                    args |-> call.args,
                                    before |-> MotorBefore(Store, call.session, call.args.joint_id),
                                    after |-> out.result.applied_params ]
                     IN  IF motorLog = <<>> THEN <<entry>>
                         ELSE <<motorLog[Len(motorLog)], entry>>
    /\ calls' = Resume(call)
    /\ UNCHANGED <<clockVars, running, started, addLog, simVars>>

\* runSimulation, ground path, lines 334-350: getOrCreate, then the telemetry and
\* the events are computed from session.physics and session.motors
RunGenerate(call) ==
    /\ call.tool = "run_simulation"
    /\ ~isDrone(call.args)
    /\ Schedulable
    /\ LET s1 == getOrCreate(Store, call.session)
           session == s1.sessions[call.session]
       IN  /\ sessions' = s1.sessions
           /\ motorMaps' = s1.heap
           /\ running' = running \cup
                  {[ session |-> call.session, tool |-> call.tool, args |-> call.args,
                     telemetry_from |-> [ physics |-> session.physics,
                                          motors |-> s1.heap[session.motors] ] ]}
    /\ calls' = Resume(call)
    /\ UNCHANGED <<clockVars, started, returned, motorLog, addLog, simVars>>

\* runSimulation, ground path, lines 353-395: the run record refers to
\* session.physics and session.motors as they are now, and is stored.  The
\* outcome of the event generator (modelled in full under SpecSim) is either.
RunStore(r) ==
    /\ \E failed \in BOOLEAN, sfx \in RunSuffixes :
        LET session == sessions[r.session]
            run == [ run_id |-> <<"sim", sfx>>,
                     status |-> IF failed THEN "failed" ELSE "completed",
                     physics_config |-> session.physics,
                     motor_configs |-> session.motors,
                     telemetry_from |-> r.telemetry_from,
                     physics_at_creation |-> session.physics,
                     motors_at_creation |-> motorMaps[session.motors] ]
            s1 == addRun(Store, r.session, run)
        IN  /\ sessions' = s1.sessions
            /\ motorMaps' = s1.heap
            /\ addLog' = [addLog EXCEPT ![r.session] = Append(@, run)]
            /\ returned' = Envelope(r,
                    [thrown |-> <<>>, result |-> [run_id |-> run.run_id, status |-> run.status]])
    /\ running' = running \ {r}
    /\ UNCHANGED <<clockVars, calls, started, motorLog, simVars>>

\* runDroneSimulation: the store is not touched
RunDroneSimulation(call) ==
    /\ call.tool = "run_simulation"
    /\ isDrone(call.args)
    /\ Schedulable
    /\ \E failed \in BOOLEAN, sfx \in RunSuffixes :
        returned' = Envelope(call,
            [ thrown |-> <<>>,
              result |-> [ run_id |-> <<"flight", sfx>>,
                           status |-> IF failed THEN "failed" ELSE "completed" ] ])
    /\ calls' = Resume(call)
    /\ UNCHANGED <<clockVars, sessions, motorMaps, running, started, motorLog, addLog, simVars>>

Next ==
    \/ \E sessionId \in SessionIds, tc \in ToolCalls : Execute(sessionId, tc)
    \/ \E call \in BagToSet(calls) : ConfigurePhysics(call)
    \/ \E call \in BagToSet(calls) : UpdateMotorParams(call)
    \/ \E call \in BagToSet(calls) : RunGenerate(call)
    \/ \E r \in running : RunStore(r)
    \/ \E call \in BagToSet(calls) : RunDroneSimulation(call)

Spec == Init /\ [][Next]_vars

----------------------------------------------------------------------------
(* Properties of the service and the store, checked under Spec *)

\* the runs a session holds
StoredRuns(sessionId) ==
    {sessions[sessionId].runs[k] : k \in 1..Len(sessions[sessionId].runs)}

\* C1: a stored run's physics_config and motor_configs keep the values they had
\* when the run was created, whatever configure_physics and update_motor_params
\* calls follow.
C1_RunConfigIsSnapshot ==
    \A sessionId \in DOMAIN sessions : \A run \in StoredRuns(sessionId) :
        /\ run.physics_config = run.physics_at_creation
        /\ motorMaps[run.motor_configs] = run.motors_at_creation

PidOnly(entry) == DOMAIN entry.args = {"joint_id", "pid_p"}

\* C2: two update_motor_params calls on one joint, each supplying only joint_id
\* and pid_p (different values), leave pid_p at the second value and every other
\* field at the value it had before the two calls.
C2_PidMergeKeepsOtherFields ==
    ( /\ Len(motorLog) = 2
      /\ PidOnly(motorLog[1]) /\ PidOnly(motorLog[2])
      /\ motorLog[1].session = motorLog[2].session
      /\ motorLog[1].args.joint_id = motorLog[2].args.joint_id
      /\ motorLog[1].args.pid_p # motorLog[2].args.pid_p )
    => /\ motorLog[2].after.pid_p = <<motorLog[2].args.pid_p>>
       /\ \A f \in {"torque_limit", "pid_i", "pid_d", "max_velocity"} :
              motorLog[2].after[f] = motorLog[1].before[f]

\* C7: with calls in flight concurrently on one session, every stored run records
\* the configuration its telemetry was generated from, and at most one handler is
\* ever inside its synchronous section.
C7_RunRecordsTheConfigItUsed ==
    /\ Cardinality(running) <= 1
    /\ \A sessionId \in DOMAIN sessions : \A run \in StoredRuns(sessionId) :
          /\ run.telemetry_from.physics = run.physics_at_creation
          /\ run.telemetry_from.motors = run.motors_at_creation

\* a ground run is inside its section while a configure_physics call for the same
\* session is in flight, and the session already holds a stored run
C7_Witness ==
    \E r \in running : \E c \in BagToSet(calls) :
        /\ c.session = r.session
        /\ c.tool = "configure_physics"
        /\ r.session \in DOMAIN sessions
        /\ Len(sessions[r.session].runs) >= 1

\* what a session holds, with its motors Map read through the heap
SessionView(ss, heap, sessionId) ==
    IF sessionId \in DOMAIN ss
    THEN [ exists |-> TRUE,
           physics |-> ss[sessionId].physics,
           motors |-> heap[ss[sessionId].motors],
           runs |-> ss[sessionId].runs,
           current_run |-> ss[sessionId].current_run ]
    ELSE [ exists |-> FALSE ]

\* the handler of `call` runs in this step
Acts(call) ==
    \/ call \in BagToSet(calls) /\ CopiesIn(call, calls') < CopiesIn(call, calls)
    \/ \E r \in running \ running' :
          r.session = call.session /\ r.tool = call.tool /\ r.args = call.args

InFlight ==
    BagToSet(calls) \cup
    {[session |-> r.session, tool |-> r.tool, args |-> r.args] : r \in running}

\* C9: a tool call executed for one session leaves every other session's physics,
\* motor map, run history and current_run unchanged, and sessions share no
\* mutable default object.
C9_SessionIsolation ==
    [][ /\ \A call \in InFlight : Acts(call) =>
              \A b \in SessionIds \ {call.session} :
                  SessionView(sessions', motorMaps', b) = SessionView(sessions, motorMaps, b)
        /\ \A a, b \in DOMAIN sessions' :
              a # b => sessions'[a].motors # sessions'[b].motors ]_vars

\* both sessions exist, one with changed physics and motors, the other as created
C9_Witness ==
    /\ "sA" \in DOMAIN sessions /\ "sB" \in DOMAIN sessions
    /\ sessions["sA"].physics # DEFAULT_PHYSICS
    /\ motorMaps[sessions["sA"].motors]["leg_1_coxa"].pid_p = <<200>>
    /\ sessions["sB"].physics = DEFAULT_PHYSICS
    /\ motorMaps[sessions["sB"].motors]["leg_1_coxa"].pid_p = <<100>>

FrictionOutOfRange(args) ==
    /\ "friction_coefficient" \in DOMAIN args
    /\ (args.friction_coefficient < 0 \/ args.friction_coefficient > 100)

\* C10: configure_physics with a friction_coefficient outside [0,1] stores the
\* nearest bound, succeeds with status 'partial' and a non-empty warnings array;
\* every session's friction_coefficient lies in [0,1].
C10_FrictionClamped ==
    /\ ( returned.tool = "configure_physics" /\ FrictionOutOfRange(returned.args) )
       => /\ returned.success
          /\ returned.result.status = "partial"
          /\ Len(returned.result.warnings) > 0
          /\ returned.result.applied_config.friction_coefficient =
                (IF returned.args.friction_coefficient > 100 THEN 100 ELSE 0)
          /\ sessions[returned.session].physics.friction_coefficient =
                returned.result.applied_config.friction_coefficient
    /\ \A sessionId \in DOMAIN sessions :
          sessions[sessionId].physics.friction_coefficient \in 0..100

\* friction_coefficient = 1.5 was sent and 1.0 is stored
C10_Witness ==
    /\ returned.tool = "configure_physics"
    /\ Arg(returned.args, "friction_coefficient") = <<150>>
    /\ sessions[returned.session].physics.friction_coefficient = 100

----------------------------------------------------------------------------
(* The store on its own: addRun called directly, any number of times *)

AddsSoFar == Len(addLog["sA"]) + Len(addLog["sB"])

\* stateStore.addRun(sessionId, run), the run identified by its run_id
StoreAddRun(sessionId) ==
    /\ AddsSoFar < MaxAdds
    /\ LET run == [run_id |-> <<"sim", AddsSoFar + 1>>]
           s1 == addRun(Store, sessionId, run)
       IN  /\ sessions' = s1.sessions
           /\ motorMaps' = s1.heap
           /\ addLog' = [addLog EXCEPT ![sessionId] = Append(@, run)]
    /\ UNCHANGED <<clockVars, svcVars, simVars>>

NextStore == \E sessionId \in SessionIds : StoreAddRun(sessionId)

SpecStore == Init /\ [][NextStore]_vars

\* C8: a session's history holds at most 10 runs, exactly the most recently
\* added ones in insertion order, and current_run and getLatestRun are the run
\* added last.
C8_HistoryKeepsLastTen ==
    \A sessionId \in DOMAIN sessions :
        LET log == addLog[sessionId]
            runs == sessions[sessionId].runs
        IN  /\ Len(runs) <= 10
            /\ Len(runs) = Min(Len(log), 10)
            /\ \A k \in 1..Len(runs) : runs[k] = log[Len(log) - Len(runs) + k]
            /\ Len(log) > 0 =>
                  /\ sessions[sessionId].current_run = <<log[Len(log)]>>
                  /\ getLatestRun(Store, sessionId) = <<log[Len(log)]>>

\* more than 10 runs were added to a session, which holds 10
C8_Witness ==
    \E sessionId \in DOMAIN sessions :
        /\ Len(addLog[sessionId]) > 10
        /\ Len(sessions[sessionId].runs) = 10

----------------------------------------------------------------------------
(* Telemetry and the event generators.  Angles and temperatures are in     *)
(* tenths, durations in hundredths of a second, random draws in hundredths *)
(* (the gate) and thousandths (the pick), weights in ten-thousandths.      *)

SAMPLE_HZ == 50
BASE_FAILURE_RATE == 12
DRONE_BASE_FAILURE_RATE == 8
MAX_EVENTS == 10

DEFAULT_DRONE_PHYSICS ==
    [air_density |-> 1225, wind_speed |-> 20, wind_direction |-> 180,
     airspace_condition |-> "light_wind"]

clamp(value, lo, hi) == Min(Max(value, lo), hi)

Abs(x) == IF x < 0 THEN -x ELSE x

\* Math.floor(durationSeconds * sampleRateHz); the frames array is empty when
\* that is not positive
TotalSamples(durationCs) == (durationCs * SAMPLE_HZ) \div 100

\* mutant: the attitude is emitted as it was computed
TelemetryFrameUnclamped(raw) == [raw EXCEPT !.temperature = Min(550, @)]

\* a frame as generateTelemetryStream emits it, from the values before its clamps
TelemetryFrame(raw) ==
    [raw EXCEPT !.pitch = clamp(@, -300, 300),
                !.roll = clamp(@, -200, 200),
                !.temperature = Min(550, @)]

\* a frame as generateDroneTelemetryStream emits it
DroneTelemetryFrame(raw) ==
    [raw EXCEPT !.pitch = clamp(@, -300, 300),
                !.roll = clamp(@, -300, 300),
                !.battery = clamp(@, 0, 100),
                !.gps_quality = clamp(@, 0, 100)]

ZeroMetrics ==
    [stability_score |-> 0, efficiency_score |-> 0, gait_symmetry |-> 0,
     max_pitch_deviation |-> 0, max_roll_deviation |-> 0, slip_events |-> 0,
     total_energy_consumed |-> 0, avg_joint_temperature |-> 0]

ZeroDroneMetrics ==
    [hover_accuracy |-> 0, altitude_stability |-> 0, battery_efficiency |-> 0,
     wind_compensation_events |-> 0, max_altitude_deviation |-> 0,
     avg_rotor_rpm |-> 0, gps_quality_avg |-> 0]

\* the values measured on a non-empty stream are not followed here
MeasuredMetrics == [measured |-> TRUE]

analyzeTelemetry(n) == IF n = 0 THEN ZeroMetrics ELSE MeasuredMetrics

analyzeDroneTelemetry(n) == IF n = 0 THEN ZeroDroneMetrics ELSE MeasuredMetrics

\* generateDroneTelemetrySummary reads frames[frames.length - 1].battery: a
\* TypeError on an empty array
generateDroneTelemetrySummary(n) ==
    IF n = 0
    THEN [thrown |-> <<[message |-> "Cannot read properties of undefined"]>>]
    ELSE [thrown |-> <<>>]

FAILURE_TYPES ==
    << "motor_overheat", "slip_event", "gait_mismatch", "rollover",
       "power_fluctuation", "sensor_noise", "joint_limit_exceeded" >>

FAILURE_SCENARIOS ==
    [ motor_overheat |-> "warning", slip_event |-> "warning", gait_mismatch |-> "warning",
      rollover |-> "critical", power_fluctuation |-> "info", sensor_noise |-> "info",
      joint_limit_exceeded |-> "error" ]

\* the terrain's modifiers, in tenths
getTerrainModifiers(terrain) ==
    LET modifiers ==
          [ sand |-> [motor_overheat |-> 15, slip_event |-> 20, gait_mismatch |-> 13,
                      rollover |-> 14, power_fluctuation |-> 12, sensor_noise |-> 11,
                      joint_limit_exceeded |-> 12],
            concrete |-> [motor_overheat |-> 8, slip_event |-> 3, gait_mismatch |-> 7,
                      rollover |-> 6, power_fluctuation |-> 9, sensor_noise |-> 8,
                      joint_limit_exceeded |-> 11],
            grass |-> [motor_overheat |-> 10, slip_event |-> 12, gait_mismatch |-> 10,
                      rollover |-> 9, power_fluctuation |-> 10, sensor_noise |-> 10,
                      joint_limit_exceeded |-> 9],
            gravel |-> [motor_overheat |-> 13, slip_event |-> 15, gait_mismatch |-> 14,
                      rollover |-> 13, power_fluctuation |-> 11, sensor_noise |-> 12,
                      joint_limit_exceeded |-> 13] ]
    IN  IF terrain \in DOMAIN modifiers THEN modifiers[terrain] ELSE modifiers.concrete

DRONE_FAILURE_TYPES ==
    << "motor_failure", "gps_loss", "low_battery", "signal_lost",
       "geofence_breach", "wind_warning", "obstacle_detected", "flyaway" >>

DRONE_FAILURE_SCENARIOS ==
    [ motor_failure |-> "error", gps_loss |-> "warning", low_battery |-> "warning",
      signal_lost |-> "error", geofence_breach |-> "warning", wind_warning |-> "warning",
      obstacle_detected |-> "info", flyaway |-> "critical" ]

getAirspaceModifiers(condition) ==
    LET modifiers ==
          [ calm |-> [motor_failure |-> 5, gps_loss |-> 6, low_battery |-> 10,
                      signal_lost |-> 7, geofence_breach |-> 8, wind_warning |-> 1,
                      obstacle_detected |-> 10, flyaway |-> 3],
            light_wind |-> [motor_failure |-> 8, gps_loss |-> 8, low_battery |-> 12,
                      signal_lost |-> 9, geofence_breach |-> 10, wind_warning |-> 5,
                      obstacle_detected |-> 10, flyaway |-> 5],
            gusty |-> [motor_failure |-> 12, gps_loss |-> 10, low_battery |-> 15,
                      signal_lost |-> 12, geofence_breach |-> 13, wind_warning |-> 20,
                      obstacle_detected |-> 8, flyaway |-> 10],
            turbulent |-> [motor_failure |-> 18, gps_loss |-> 13, low_battery |-> 20,
                      signal_lost |-> 15, geofence_breach |-> 15, wind_warning |-> 30,
                      obstacle_detected |-> 6, flyaway |-> 15] ]
    IN  IF condition \in DOMAIN modifiers THEN modifiers[condition] ELSE modifiers.calm

RECURSIVE SumTo(_, _)
SumTo(weights, k) == IF k = 0 THEN 0 ELSE SumTo(weights, k - 1) + weights[k]

\* random -= weights[i]; if (random <= 0) return type i: the first index whose
\* running total reaches random, 0 when the loop falls through
RECURSIVE PickFrom(_, _, _)
PickFrom(weights, random, i) ==
    IF i > Len(weights) THEN 0
    ELSE IF random - SumTo(weights, i) <= 0 THEN i
    ELSE PickFrom(weights, random, i + 1)

\* the weighted selection both injectors end with; pick is Math.random()
WeightedPick(types, scenarios, weights, pick) ==
    LET totalWeight == SumTo(weights, Len(weights))
        i == PickFrom(weights, (pick * totalWeight) \div 1000, 1)
    IN  IF i = 0 THEN <<>>
        ELSE << [type |-> types[i], severity |-> scenarios[types[i]]] >>

\* mutant: the injector never finds an earlier event
CountNothing(evs, sevs) == 0

CountSeverity(evs, sevs) == Cardinality({k \in 1..Len(evs) : evs[k].severity \in sevs})

\* draw.gate and draw.pick are the two Math.random() values the call may use;
\* the result is <<>> for null
shouldInjectFailure(phys, i, n, existingEvents, draw) ==
    IF CountSeverity(existingEvents, {"critical"}) > 0 THEN <<>>
    ELSE IF CountSeverity(existingEvents, {"warning", "error"}) >= 3 THEN <<>>
    ELSE IF draw.gate > BASE_FAILURE_RATE THEN <<>>
    ELSE
      LET m == getTerrainModifiers(phys.terrain_type)
          weights == [k \in 1..Len(FAILURE_TYPES) |->
              LET type == FAILURE_TYPES[k] IN
              IF type = "slip_event" THEN m[type] * (120 - phys.friction_coefficient) * 10
              ELSE IF type = "motor_overheat" THEN (m[type] * 1000 * (n + 2 * i)) \div (2 * n)
              ELSE IF type = "rollover" THEN (m[type] * 1000 * phys.gravity * 3) \div 9810
              ELSE m[type] * 1000]
      IN  WeightedPick(FAILURE_TYPES, FAILURE_SCENARIOS, weights, draw.pick)

shouldInjectDroneFailure(phys, i, n, existingEvents, draw) ==
    IF CountSeverity(existingEvents, {"critical"}) > 0 THEN <<>>
    ELSE IF CountSeverity(existingEvents, {"warning", "error"}) >= 3 THEN <<>>
    ELSE IF draw.gate > DRONE_BASE_FAILURE_RATE THEN <<>>
    ELSE
      LET m == getAirspaceModifiers(phys.airspace_condition)
          weights == [k \in 1..Len(DRONE_FAILURE_TYPES) |->
              LET type == DRONE_FAILURE_TYPES[k] IN
              IF type = "wind_warning" THEN (m[type] * 1000 * phys.wind_speed) \div 50
              ELSE IF type = "low_battery" THEN (m[type] * 1000 * (3 * n + 10 * i)) \div (10 * n)
              ELSE IF type = "gps_loss" THEN (m[type] * 1000 * (10 * n - 3 * i)) \div (10 * n)
              ELSE IF type = "flyaway" THEN m[type] * 100
              ELSE m[type] * 1000]
      IN  WeightedPick(DRONE_FAILURE_TYPES, DRONE_FAILURE_SCENARIOS, weights, draw.pick)

\* an entry of the events array; at and injected are history fields: the sample
\* point that produced the entry and whether the injector did
Event(frame, i, type, severity, injected) ==
    [timestamp |-> frame.timestamp, type |-> type, severity |-> severity,
     at |-> i, injected |-> injected]

\* mutant: the rollover check fires at the stability threshold already
FrameEventsEarlyRollover(frame, i) ==
    (IF frame.slip THEN <<Event(frame, i, "slip", "warning", FALSE)>> ELSE <<>>)
    \o (IF Abs(frame.pitch) > 200
        THEN <<Event(frame, i, "stability_warning",
                     IF frame.pitch > 250 THEN "error" ELSE "warning", FALSE)>>
        ELSE <<>>)
    \o (IF Abs(frame.pitch) > 200 \/ Abs(frame.roll) > 250
        THEN <<Event(frame, i, "rollover", "critical", FALSE)>> ELSE <<>>)
    \o (IF frame.temperature > 500
        THEN <<Event(frame, i, "overheat", "warning", FALSE)>> ELSE <<>>)

\* the rule-based checks of generateSimulationEvents on one sampled frame
FrameEvents(frame, i) ==
    (IF frame.slip THEN <<Event(frame, i, "slip", "warning", FALSE)>> ELSE <<>>)
    \o (IF Abs(frame.pitch) > 200
        THEN <<Event(frame, i, "stability_warning",
                     IF frame.pitch > 250 THEN "error" ELSE "warning", FALSE)>>
        ELSE <<>>)
    \o (IF Abs(frame.pitch) > 300 \/ Abs(frame.roll) > 250
        THEN <<Event(frame, i, "rollover", "critical", FALSE)>> ELSE <<>>)
    \o (IF frame.temperature > 500
        THEN <<Event(frame, i, "overheat", "warning", FALSE)>> ELSE <<>>)

\* 4 * max |r - avgRPM| over the four rotors
MaxVariance4(rotor_speeds) ==
    LET total == rotor_speeds[1] + rotor_speeds[2] + rotor_speeds[3] + rotor_speeds[4]
        dev == {Abs(4 * rotor_speeds[r] - total) : r \in 1..4}
    IN  CHOOSE d \in dev : \A e \in dev : e <= d

\* the rule-based checks of generateDroneSimulationEvents on one sampled frame
DroneFrameEvents(frame, i) ==
    (IF frame.gps_quality < 70
     THEN <<Event(frame, i, "gps_loss",
                  IF frame.gps_quality < 50 THEN "error" ELSE "warning", FALSE)>>
     ELSE <<>>)
    \o (IF frame.battery < 20
        THEN <<Event(frame, i, "low_battery",
                     IF frame.battery < 10 THEN "critical" ELSE "warning", FALSE)>>
        ELSE <<>>)
    \o (IF frame.signal_strength < -70
        THEN <<Event(frame, i, "signal_lost", "warning", FALSE)>> ELSE <<>>)
    \o (IF Abs(frame.roll) > 150 \/ Abs(frame.pitch) > 150
        THEN <<Event(frame, i, "wind_warning", "warning", FALSE)>> ELSE <<>>)
    \o (IF MaxVariance4(frame.rotor_speeds) > 2000
        THEN <<Event(frame, i, "motor_failure",
                     IF MaxVariance4(frame.rotor_speeds) > 4000 THEN "error" ELSE "warning",
                     FALSE)>>
        ELSE <<>>)

\* mutant: the newest entries are kept (slice(-10))
LastEvents(evs) ==
    IF Len(evs) > MAX_EVENTS THEN SubSeq(evs, Len(evs) - MAX_EVENTS + 1, Len(evs)) ELSE evs

\* events.slice(0, 10)
FirstEvents(evs) == SubSeq(evs, 1, Min(MAX_EVENTS, Len(evs)))

\* mutant: an error-severity event fails the run as well
shouldFailOnError(evs) == CountSeverity(evs, {"critical", "error"}) > 0

\* shouldSimulationFail and shouldDroneSimulationFail
shouldSimulationFail(evs) == CountSeverity(evs, {"critical"}) > 0

----------------------------------------------------------------------------
(* One run_simulation computation followed step by step, and the two event *)
(* generators called directly on frames of the caller's choosing.  The     *)
(* sampling loop is one step per sample point; a frame's contents are      *)
(* fixed when the loop first reads it.                                     *)

SimSession == "sA"

SimDurations == {1, 10, -100}

SimArgs ==
    { <<>>, [robot_type |-> "drone"] }
    \cup { [duration_seconds |-> d] : d \in SimDurations }
    \cup { [duration_seconds |-> d, robot_type |-> "drone"] : d \in SimDurations }

FrameCounts == {0, 3, 10}

SimPhysics ==
    { DEFAULT_PHYSICS,
      [gravity |-> 981, friction_coefficient |-> 30, terrain_type |-> "sand",
       terrain_roughness |-> 30] }

SimInputs ==
    [entry : {"run_simulation"}, args : SimArgs]
    \cup [entry : {"generateSimulationEvents"}, len : FrameCounts, physics : SimPhysics]
    \cup [entry : {"generateDroneSimulationEvents"}, len : FrameCounts,
          physics : {DEFAULT_DRONE_PHYSICS}]

\* frame contents before the generator's clamps: a quiet frame, and one that
\* slips, pitches past every threshold and runs hot
RawFrames ==
    { [slip |-> FALSE, pitch |-> 0, roll |-> 0, temperature |-> 400],
      [slip |-> TRUE, pitch |-> 350, roll |-> 0, temperature |-> 510] }

\* a quiet frame, and one degraded on every channel
RawDroneFrames ==
    { [gps_quality |-> 95, battery |-> 80, signal_strength |-> -45, roll |-> 0,
       pitch |-> 0, rotor_speeds |-> <<4500, 4500, 4500, 4500>>],
      [gps_quality |-> 60, battery |-> 15, signal_strength |-> -75, roll |-> 160,
       pitch |-> 0, rotor_speeds |-> <<4500, 4500, 4500, 5300>>] }

\* frames a caller of generateSimulationEvents may pass: the generated kinds,
\* and one that slips, pitches to 22 degrees and runs hot
CallerFrames ==
    RawFrames \cup { [slip |-> TRUE, pitch |-> 220, roll |-> 0, temperature |-> 510] }

PickDraws == {0, 380, 995}

\* the two Math.random() values of one injector call
InjectDraws ==
    { [gate |-> 50, pick |-> 0] } \cup { [gate |-> 5, pick |-> u] : u \in PickDraws }

Aerial(in) ==
    IF in.entry = "run_simulation" THEN isDrone(in.args)
    ELSE in.entry = "generateDroneSimulationEvents"

SimCall == [session |-> SimSession, tool |-> "run_simulation", args |-> simIn.args]

\* args.duration_seconds || fallback
DurationOr(args, fallback) ==
    IF Arg(args, "duration_seconds") # <<>> /\ args.duration_seconds # 0
    THEN args.duration_seconds ELSE fallback

\* timestamp: Math.round(t * 1000) at 50 Hz
Stamp(raw, i) == [timestamp |-> i * 20] @@ raw

\* frames[i]: as read before, or fixed now
FrameAt(i) ==
    IF i \in DOMAIN telemetry THEN {telemetry[i]}
    ELSE IF simIn.entry = "run_simulation"
         THEN IF Aerial(simIn)
              THEN {DroneTelemetryFrame(Stamp(raw, i)) : raw \in RawDroneFrames}
              ELSE {TelemetryFrame(Stamp(raw, i)) : raw \in RawFrames}
         ELSE IF Aerial(simIn)
              THEN {Stamp(raw, i) : raw \in RawDroneFrames}
              ELSE {Stamp(raw, i) : raw \in CallerFrames}

\* const sampleRate = Math.floor(frames.length / 10)
sampleRate == frameCount \div 10

InitSim ==
    /\ InitStore
    /\ InitService
    /\ simIn \in SimInputs
    /\ simPc = IF simIn.entry = "run_simulation" THEN "called" ELSE "generate"
    /\ simPhysics = IF simIn.entry = "run_simulation" THEN <<>> ELSE simIn.physics
    /\ frameCount = IF simIn.entry = "run_simulation" THEN 0 ELSE simIn.len
    /\ telemetry = <<>>
    /\ idx = 0
    /\ spins = 0
    /\ events = <<>>
    /\ simOut = NoSimOutput

\* runSimulation from its getOrCreate to analyzeTelemetry
PipelineTelemetry ==
    /\ simPc = "called"
    /\ ~Aerial(simIn)
    /\ LET s0 == getOrCreate(Store, SimSession)
       IN  /\ sessions' = s0.sessions
           /\ motorMaps' = s0.heap
           /\ simPhysics' = s0.sessions[SimSession].physics
    /\ frameCount' = Max(0, TotalSamples(DurationOr(simIn.args, 500)))
    /\ simPc' = "generate"
    /\ UNCHANGED <<clockVars, svcVars, addLog, simIn, telemetry, idx, spins, events, simOut>>

\* runDroneSimulation up to analyzeDroneFlightPath
PipelineDroneTelemetry ==
    /\ simPc = "called"
    /\ Aerial(simIn)
    /\ simPhysics' =
          [DEFAULT_DRONE_PHYSICS EXCEPT
              !.wind_speed = IF Arg(simIn.args, "wind_speed") # <<>>
                             THEN simIn.args.wind_speed ELSE @,
              !.airspace_condition =
                  IF Arg(simIn.args, "airspace_condition") # <<>>
                     /\ Truthy(simIn.args.airspace_condition)
                  THEN simIn.args.airspace_condition ELSE @]
    /\ frameCount' = Max(0, TotalSamples(DurationOr(simIn.args, 3000)))
    /\ simPc' = "generate"
    /\ UNCHANGED <<clockVars, storeVars, svcVars, addLog, simIn, telemetry, idx, spins, events, simOut>>

\* either generator, up to the loop's initialisation
GeneratorEnter ==
    /\ simPc = "generate"
    /\ events' = <<>>
    /\ idx' = sampleRate
    /\ simPc' = "sampling"
    /\ UNCHANGED <<clockVars, storeVars, svcVars, addLog, simIn, simPhysics, frameCount, telemetry,
                   spins, simOut>>

\* one iteration of generateSimulationEvents' loop
SampleFrame ==
    /\ simPc = "sampling"
    /\ ~Aerial(simIn)
    /\ idx < frameCount
    /\ sampleRate = 0 => spins < MaxSpins
    /\ \E frame \in FrameAt(idx), draw \in InjectDraws :
          LET checked == events \o FrameEvents(frame, idx)
              injectedFailure ==
                  shouldInjectFailure(simPhysics, idx, frameCount, checked, draw)
          IN  /\ events' =
                    IF injectedFailure = <<>> THEN checked
                    ELSE Append(checked, Event(frame, idx, injectedFailure[1].type,
                                               injectedFailure[1].severity, TRUE))
              /\ telemetry' = MapSet(telemetry, idx, frame)
    /\ idx' = idx + sampleRate
    /\ spins' = IF sampleRate = 0 THEN spins + 1 ELSE spins
    /\ UNCHANGED <<clockVars, storeVars, svcVars, addLog, simIn, simPc, simPhysics, frameCount, simOut>>

\* one iteration of generateDroneSimulationEvents' loop
SampleDroneFrame ==
    /\ simPc = "sampling"
    /\ Aerial(simIn)
    /\ idx < frameCount
    /\ sampleRate = 0 => spins < MaxSpins
    /\ \E frame \in FrameAt(idx), draw \in InjectDraws :
          LET checked == events \o DroneFrameEvents(frame, idx)
              injectedFailure ==
                  shouldInjectDroneFailure(simPhysics, idx, frameCount, checked, draw)
          IN  /\ events' =
                    IF injectedFailure = <<>> THEN checked
                    ELSE Append(checked, Event(frame, idx, injectedFailure[1].type,
                                               injectedFailure[1].severity, TRUE))
              /\ telemetry' = MapSet(telemetry, idx, frame)
    /\ idx' = idx + sampleRate
    /\ spins' = IF sampleRate = 0 THEN spins + 1 ELSE spins
    /\ UNCHANGED <<clockVars, storeVars, svcVars, addLog, simIn, simPc, simPhysics, frameCount, simOut>>

\* the loop's exit and return events.slice(0, 10)
GeneratorReturn ==
    /\ simPc = "sampling"
    /\ ~(idx < frameCount)
    /\ simOut' = [simOut EXCEPT !.events = FirstEvents(events)]
    /\ simPc' = IF simIn.entry = "run_simulation" THEN "summarise" ELSE "generated"
    /\ UNCHANGED <<clockVars, storeVars, svcVars, addLog, simIn, simPhysics, frameCount, telemetry,
                   idx, spins, events>>

\* runSimulation from shouldSimulationFail to its return, and execute's envelope
PipelineReturn ==
    /\ simPc = "summarise"
    /\ ~Aerial(simIn)
    /\ \E sfx \in RunSuffixes :
          LET failed == shouldSimulationFail(simOut.events)
              status == IF failed THEN "failed" ELSE "completed"
              metrics == analyzeTelemetry(frameCount)
              session == sessions[SimSession]
              run == [ run_id |-> <<"sim", sfx>>, status |-> status,
                       physics_config |-> session.physics,
                       motor_configs |-> session.motors,
                       events |-> simOut.events, metrics |-> metrics ]
              s1 == addRun(Store, SimSession, run)
          IN  /\ sessions' = s1.sessions
              /\ motorMaps' = s1.heap
              /\ addLog' = [addLog EXCEPT ![SimSession] = Append(@, run)]
              /\ simOut' = [simOut EXCEPT !.envelope = Envelope(SimCall,
                    [ thrown |-> <<>>,
                      result |-> [ run_id |-> run.run_id, status |-> status,
                                   metrics |-> metrics ] ])]
    /\ simPc' = "returned"
    /\ UNCHANGED <<clockVars, svcVars, simIn, simPhysics, frameCount, telemetry, idx, spins, events>>

\* runDroneSimulation from shouldDroneSimulationFail to its return, and
\* execute's envelope
PipelineDroneReturn ==
    /\ simPc = "summarise"
    /\ Aerial(simIn)
    /\ \E sfx \in RunSuffixes :
          LET failed == shouldSimulationFail(simOut.events)
              summary == generateDroneTelemetrySummary(frameCount)
              out == IF summary.thrown # <<>>
                     THEN [thrown |-> summary.thrown]
                     ELSE [ thrown |-> <<>>,
                            result |-> [ run_id |-> <<"flight", sfx>>,
                                         status |-> IF failed THEN "failed" ELSE "completed",
                                         metrics |-> analyzeDroneTelemetry(frameCount) ] ]
          IN  simOut' = [simOut EXCEPT !.envelope = Envelope(SimCall, out)]
    /\ simPc' = "returned"
    /\ UNCHANGED <<clockVars, storeVars, svcVars, addLog, simIn, simPhysics, frameCount, telemetry,
                   idx, spins, events>>

NextSim ==
    \/ PipelineTelemetry
    \/ PipelineDroneTelemetry
    \/ GeneratorEnter
    \/ SampleFrame
    \/ SampleDroneFrame
    \/ GeneratorReturn
    \/ PipelineReturn
    \/ PipelineDroneReturn

SpecSim == InitSim /\ [][NextSim]_vars

----------------------------------------------------------------------------
(* Properties of the simulation pipeline *)

HasCritical(evs) == \E k \in 1..Len(evs) : evs[k].severity = "critical"

GeneratorReturned == simPc \in {"generated", "summarise", "returned"}

\* C3: a run_simulation call that returns a result reports status 'failed'
\* exactly when the event list its generator returned holds a critical event,
\* and 'completed' otherwise; a run with a critical event is returned with
\* success = true.
C3_FailedIffCriticalEvent ==
    simPc = "returned" =>
        /\ simOut.envelope.success =>
              simOut.envelope.result.status =
                  IF HasCritical(simOut.events) THEN "failed" ELSE "completed"
        /\ HasCritical(simOut.events) => simOut.envelope.success

\* a ground run returned as failed, with success = true
C3_Witness ==
    /\ simPc = "returned"
    /\ ~Aerial(simIn)
    /\ HasCritical(simOut.events)
    /\ simOut.envelope.success
    /\ simOut.envelope.result.status = "failed"

\* C4: every iteration of a generator's sampling loop moves its index forward,
\* so the loop is left after at most frames.length iterations whatever the
\* number of frames.
C4_SamplingLoopAdvances ==
    [][(simPc = "sampling" /\ simPc' = "sampling") => idx' > idx]_vars

\* C5: the list a generator returns has at most 10 entries, and they are the
\* first entries generated: sample points in increasing order and, within a
\* sample point, the rule-based events before the injected one.
C5_ReturnsFirstTenInOrder ==
    GeneratorReturned =>
        /\ Len(simOut.events) <= 10
        /\ Len(simOut.events) = Min(10, Len(events))
        /\ \A k \in 1..Len(simOut.events) : simOut.events[k] = events[k]
        /\ \A k \in 1..(Len(events) - 1) :
              \/ events[k].at < events[k + 1].at
              \/ events[k].at = events[k + 1].at /\ ~events[k].injected

\* a generator returned 10 of more than 10 events, an injected one among them
C5_Witness ==
    /\ GeneratorReturned
    /\ Len(events) > 10
    /\ Len(simOut.events) = 10
    /\ \E k \in 1..Len(simOut.events) : simOut.events[k].injected

\* C6: a run_simulation call whose duration gives no telemetry frames returns
\* a successful envelope with an empty event list and all-zero metrics.
C6_NoFramesGiveEmptyResult ==
    (simPc = "returned" /\ frameCount = 0) =>
        /\ simOut.envelope.success
        /\ simOut.events = <<>>
        /\ simOut.envelope.result.metrics \in {ZeroMetrics, ZeroDroneMetrics}

----------------------------------------------------------------------------
(* Properties of configure_physics' terrain handling *)

\* C11: after a configure_physics call the session's terrain_type is one of
\* sand, concrete, grass, gravel; a supplied value outside that set is stored
\* as 'concrete' and reported with status 'partial' and a warning.
C11_TerrainIsValid ==
    /\ \A sessionId \in DOMAIN sessions :
          sessions[sessionId].physics.terrain_type \in TERRAINS
    /\ (/\ returned.tool = "configure_physics"
        /\ Arg(returned.args, "terrain_type") # <<>>
        /\ returned.args.terrain_type \notin TERRAINS) =>
          /\ returned.result.status = "partial"
          /\ Len(returned.result.warnings) > 0
          /\ returned.result.applied_config.terrain_type = "concrete"

----------------------------------------------------------------------------
(* Properties of the ground generator's rollover events *)

GroundReturned == GeneratorReturned /\ ~Aerial(simIn)

SteepFrame(frame) == Abs(frame.pitch) > 300 \/ Abs(frame.roll) > 250

IsRollover(ev) == ev.type = "rollover" /\ ev.severity = "critical"

\* C12: when some sampled frame has |pitch| > 30 degrees, the list that
\* generateSimulationEvents returns holds a critical rollover event and
\* shouldSimulationFail is true on it.
C12_SteepFrameFailsTheRun ==
    (GroundReturned /\ \E i \in DOMAIN telemetry : Abs(telemetry[i].pitch) > 300) =>
        /\ \E k \in 1..Len(simOut.events) : IsRollover(simOut.events[k])
        /\ shouldSimulationFail(simOut.events)

\* C13 as stated: every rollover event of the returned list comes from a
\* sampled frame with |pitch| > 30 or |roll| > 25 degrees.
C13_RolloverOnlyAtSteepFrames ==
    GroundReturned =>
        \A k \in 1..Len(simOut.events) :
            simOut.events[k].type = "rollover" => SteepFrame(telemetry[simOut.events[k].at])

\* C13: every rollover event of the returned list that the rule-based check
\* produced comes from a sampled frame with |pitch| > 30 or |roll| > 25
\* degrees; a rollover event that the injector produced was pushed while the
\* events before it held no critical event and fewer than three warning or
\* error events.
C13_RuleRolloverOnlyAtSteepFrames ==
    GroundReturned =>
        \A k \in 1..Len(simOut.events) :
            LET ev == simOut.events[k]
                before == SubSeq(events, 1, k - 1)
            IN  ev.type = "rollover" =>
                  IF ev.injected
                  THEN /\ CountSeverity(before, {"critical"}) = 0
                       /\ CountSeverity(before, {"warning", "error"}) < 3
                  ELSE SteepFrame(telemetry[ev.at])

\* a returned list with a rule-based rollover event from a frame pitched to 35
\* degrees
C13_Witness ==
    /\ GroundReturned
    /\ \E k \in 1..Len(simOut.events) :
          /\ simOut.events[k].type = "rollover"
          /\ ~simOut.events[k].injected
          /\ telemetry[simOut.events[k].at].pitch = 350

----------------------------------------------------------------------------
(* The /execute-tool route: one request at a time, each handled from the   *)
(* route's checks through execute to the response.  The event generator is *)
(* summarised by what the pipeline above shows of it: it does not return   *)
(* for 1..9 frames, and the aerial summary throws on no frames.            *)

ExecSession == "sA"

ExecRequests ==
    { [toolName |-> "run_simulation", args |-> <<>>],
      [sessionId |-> "", toolName |-> "run_simulation", args |-> <<>>],
      [sessionId |-> ExecSession, args |-> <<>>],
      [sessionId |-> ExecSession, toolName |-> "", args |-> <<>>],
      [sessionId |-> ExecSession, toolName |-> "fly_to_the_moon", args |-> <<>>] }
    \cup { [sessionId |-> ExecSession, toolName |-> tc.tool, args |-> tc.args] :
              tc \in ToolCalls }
    \cup [sessionId : {ExecSession}, toolName : {"run_simulation"}, args : SimArgs]
    \cup [sessionId : {ExecSession}, toolName : {"analyze_simulation_video"},
          args : {<<>>, [run_id |-> "flight_1"]}]
    \cup [sessionId : {ExecSession}, toolName : {"search_knowledge_base"},
          args : {<<>>, [query |-> "gait"]}]
    \cup [sessionId : {ExecSession}, toolName : {"start_autonomous_research"},
          args : {<<>>, [research_goal |-> "stable gait on sand"]}]

\* Date.now() - startTime
ExecTimes == {300, 4500}

TypeError == [message |-> "Cannot read properties of undefined"]

\* the sampling loop does not end on 1..9 frames
GeneratorHangs(n) == n > 0 /\ n \div 10 = 0

\* runSimulation's ground path in one piece; failed is the generator's verdict
runSimulation(st, sessionId, args, failed, sfx) ==
    LET s0 == getOrCreate(st, sessionId)
        n == Max(0, TotalSamples(DurationOr(args, 500)))
        session == s0.sessions[sessionId]
        status == IF failed /\ n > 0 THEN "failed" ELSE "completed"
        run == [ run_id |-> <<"sim", sfx>>, status |-> status,
                 physics_config |-> session.physics,
                 motor_configs |-> session.motors,
                 metrics |-> analyzeTelemetry(n) ]
    IN  IF GeneratorHangs(n)
        THEN [st |-> s0, hangs |-> TRUE, thrown |-> <<>>, added |-> <<>>]
        ELSE [ st |-> addRun(s0, sessionId, run), hangs |-> FALSE, thrown |-> <<>>,
               added |-> <<run>>,
               result |-> [ run_id |-> run.run_id, status |-> status,
                            metrics |-> run.metrics ] ]

\* mutant: the aerial path looks its session up as the ground path does
runDroneSimulationInSession(st, args, failed, sfx) ==
    [ st |-> getOrCreate(st, ExecSession), hangs |-> FALSE, thrown |-> <<>>,
      added |-> <<>>,
      result |-> [ run_id |-> <<"flight", sfx>>,
                   status |-> IF failed THEN "failed" ELSE "completed",
                   metrics |-> analyzeDroneTelemetry(0) ] ]

\* runDroneSimulation in one piece
runDroneSimulation(st, args, failed, sfx) ==
    LET n == Max(0, TotalSamples(DurationOr(args, 3000)))
        summary == generateDroneTelemetrySummary(n)
    IN  IF GeneratorHangs(n)
        THEN [st |-> st, hangs |-> TRUE, thrown |-> <<>>, added |-> <<>>]
        ELSE IF summary.thrown # <<>>
        THEN [st |-> st, hangs |-> FALSE, thrown |-> summary.thrown, added |-> <<>>]
        ELSE [ st |-> st, hangs |-> FALSE, thrown |-> <<>>, added |-> <<>>,
               result |-> [ run_id |-> <<"flight", sfx>>,
                            status |-> IF failed THEN "failed" ELSE "completed",
                            metrics |-> analyzeDroneTelemetry(n) ] ]

\* analyzeSimulationVideo: the aerial branch works on mock events; the ground
\* branch looks the run up and creates the session if there is none
analyzeSimulationVideo(st, sessionId, args) ==
    LET runId == IF Arg(args, "run_id") # <<>> THEN args.run_id ELSE ""
    IN  IF runId = "flight_1" \/ isDrone(args)
        THEN [ st |-> st, hangs |-> FALSE, thrown |-> <<>>, added |-> <<>>,
               result |-> [analysis |-> "flight", confidence |-> 90] ]
        ELSE LET run == IF sessionId \in DOMAIN st.sessions
                        THEN getLatestRun(st, sessionId) ELSE <<>>
             IN  [ st |-> getOrCreate(st, sessionId), hangs |-> FALSE, thrown |-> <<>>,
                   added |-> <<>>,
                   result |-> IF run = <<>>
                              THEN [analysis |-> "no simulation data", confidence |-> 50]
                              ELSE [analysis |-> "run", confidence |-> 88] ]

searchKnowledgeBase(st, args) ==
    [ st |-> st, hangs |-> FALSE, thrown |-> <<>>, added |-> <<>>,
      result |-> [query |-> Arg(args, "query")] ]

\* args.research_goal.toLowerCase() is a TypeError without a research_goal
startAutonomousResearch(st, args, sfx) ==
    IF Arg(args, "research_goal") = <<>>
    THEN [st |-> st, hangs |-> FALSE, thrown |-> <<TypeError>>, added |-> <<>>]
    ELSE [ st |-> st, hangs |-> FALSE, thrown |-> <<>>, added |-> <<>>,
           result |-> [research_id |-> <<"research", sfx>>] ]

\* the switch of execute
Dispatch(st, sessionId, toolName, args, failed, sfx) ==
    CASE toolName = "configure_physics" ->
            configurePhysics(st, sessionId, args) @@ [hangs |-> FALSE, added |-> <<>>]
      [] toolName = "update_motor_params" ->
            updateMotorParams(st, sessionId, args) @@ [hangs |-> FALSE, added |-> <<>>]
      [] toolName = "run_simulation" ->
            IF isDrone(args) THEN runDroneSimulation(st, args, failed, sfx)
            ELSE runSimulation(st, sessionId, args, failed, sfx)
      [] toolName = "analyze_simulation_video" -> analyzeSimulationVideo(st, sessionId, args)
      [] toolName = "search_knowledge_base" -> searchKnowledgeBase(st, args)
      [] toolName = "start_autonomous_research" -> startAutonomousResearch(st, args, sfx)
      [] OTHER ->
            [ st |-> st, hangs |-> FALSE, added |-> <<>>,
              thrown |-> <<createError("UNKNOWN_TOOL", "Unknown tool", TRUE)>> ]

\* error.code ? error : createError('EXECUTION_ERROR', error.message, true)
Caught(error) ==
    IF "code" \in DOMAIN error THEN error
    ELSE createError("EXECUTION_ERROR", error.message, TRUE)

\* execute's return value
ExecuteResult(out, elapsed) ==
    IF out.thrown = <<>>
    THEN [success |-> TRUE, result |-> out.result, executionTimeMs |-> elapsed]
    ELSE [success |-> FALSE, error |-> Caught(out.thrown[1]), executionTimeMs |-> elapsed]

NoSessionId(req) == IF Arg(req, "sessionId") = <<>> THEN TRUE ELSE ~Truthy(req.sessionId)

NoToolName(req) == IF Arg(req, "toolName") = <<>> THEN TRUE ELSE ~Truthy(req.toolName)

\* the route answers 400 without calling execute
RouteRejects(req) ==
    /\ started < MaxRequests
    /\ running = {}
    /\ IF NoSessionId(req) THEN TRUE ELSE NoToolName(req)
    /\ returned' =
          [ request |-> req, http |-> 400,
            body |-> [ success |-> FALSE,
                       error |-> IF NoSessionId(req)
                                 THEN createError("MISSING_SESSION", "sessionId is required", TRUE)
                                 ELSE createError("MISSING_TOOL", "toolName is required", TRUE) ] ]
    /\ started' = started + 1
    /\ UNCHANGED <<clockVars, storeVars, addLog, calls, running, motorLog, simVars>>

\* the route calls execute and sends what it returns
RouteExecutes(req) ==
    /\ started < MaxRequests
    /\ running = {}
    /\ ~NoSessionId(req)
    /\ ~NoToolName(req)
    /\ \E failed \in BOOLEAN, sfx \in RunSuffixes, elapsed \in ExecTimes :
          LET out == Dispatch(Store, req.sessionId, req.toolName, req.args, failed, sfx)
          IN  /\ ~out.hangs
              /\ sessions' = out.st.sessions
              /\ motorMaps' = out.st.heap
              /\ addLog' = IF out.added = <<>> THEN addLog
                           ELSE [addLog EXCEPT ![req.sessionId] = Append(@, out.added[1])]
              /\ returned' = [ request |-> req, http |-> 200,
                               body |-> ExecuteResult(out, elapsed) ]
    /\ started' = started + 1
    /\ UNCHANGED <<clockVars, calls, running, motorLog, simVars>>

\* the tool body entered a loop that does not end: execute does not return,
\* and the event loop serves nothing else
RouteHangs(req) ==
    /\ started < MaxRequests
    /\ running = {}
    /\ ~NoSessionId(req)
    /\ ~NoToolName(req)
    /\ LET out == Dispatch(Store, req.sessionId, req.toolName, req.args, FALSE, "a1b2")
       IN  /\ out.hangs
           /\ sessions' = out.st.sessions
           /\ motorMaps' = out.st.heap
    /\ running' = {req}
    /\ started' = started + 1
    /\ UNCHANGED <<clockVars, addLog, calls, returned, motorLog, simVars>>

NextExec ==
    \E req \in ExecRequests :
        \/ RouteRejects(req)
        \/ RouteExecutes(req)
        \/ RouteHangs(req)

SpecExec == Init /\ [][NextExec]_vars

----------------------------------------------------------------------------
(* Properties of execute and of the route *)

Answered == "http" \in DOMAIN returned

\* C14: execute does not throw and every call of it returns an envelope: a
\* boolean success, a numeric executionTimeMs, and a result exactly when
\* success is true, an error with code, message and recoverable exactly when
\* it is false.
C14_ExecuteReturnsEnvelope ==
    /\ running = {}
    /\ (Answered /\ returned.http = 200) =>
          LET body == returned.body
          IN  /\ body.success \in BOOLEAN
              /\ body.executionTimeMs \in Nat
              /\ body.success =>
                    DOMAIN body = {"success", "result", "executionTimeMs"}
              /\ ~body.success =>
                    /\ DOMAIN body = {"success", "error", "executionTimeMs"}
                    /\ {"code", "message", "recoverable"} \subseteq DOMAIN body.error
                    /\ body.error.recoverable \in BOOLEAN

\* C15: an error for a caller-fixable input problem (MISSING_PARAM,
\* MISSING_SESSION, MISSING_TOOL, UNKNOWN_TOOL) has recoverable = true, an
\* error for an exception raised inside a tool body (EXECUTION_ERROR,
\* INTERNAL_ERROR) has recoverable = false.
C15_RecoverableOnlyForInputErrors ==
    (Answered /\ ~returned.body.success) =>
        LET error == returned.body.error
        IN  /\ error.code \in {"MISSING_PARAM", "MISSING_SESSION", "MISSING_TOOL",
                               "UNKNOWN_TOOL", "EXECUTION_ERROR", "INTERNAL_ERROR"}
            /\ error.code \in {"MISSING_PARAM", "MISSING_SESSION", "MISSING_TOOL",
                               "UNKNOWN_TOOL"} => error.recoverable
            /\ error.code \in {"EXECUTION_ERROR", "INTERNAL_ERROR"} => ~error.recoverable

----------------------------------------------------------------------------
(* generateTelemetryStream called on its own, one frame per step.  Only    *)
(* the frame's timestamp is followed here; durations are in hundredths of  *)
(* a second, rates in Hz.                                                  *)

StreamInputs ==
    [entry : {"generateTelemetryStream"}, duration : {2, 100}, rate : {3, 50, 100}]
    \cup [entry : {"generateTelemetryStream"}, duration : {2}, rate : {2000}]

\* Math.floor(durationSeconds * sampleRateHz)
StreamSamples(durationCs, rate) == (durationCs * rate) \div 100

\* Math.round(x) for x = num / den, den > 0: the nearest integer, halves upwards
Round(num, den) == (2 * num + den) \div (2 * den)

\* timestamp: Math.round(t * 1000) with t = i * dt and dt = 1 / sampleRateHz
StreamTimestamp(i, rate) == Round(1000 * i, rate)

InitStream ==
    /\ InitStore
    /\ InitService
    /\ simIn \in StreamInputs
    /\ simPc = "stream"
    /\ simPhysics = DEFAULT_PHYSICS
    /\ frameCount = StreamSamples(simIn.duration, simIn.rate)
    /\ telemetry = <<>>
    /\ idx = 0
    /\ spins = 0
    /\ events = <<>>
    /\ simOut = NoSimOutput

\* one iteration of the frame loop: frames.push({ timestamp, ... })
StreamPush ==
    /\ simPc = "stream"
    /\ idx < frameCount
    /\ telemetry' = MapSet(telemetry, idx, [timestamp |-> StreamTimestamp(idx, simIn.rate)])
    /\ idx' = idx + 1
    /\ UNCHANGED <<clockVars, storeVars, svcVars, addLog, simIn, simPc, simPhysics, frameCount,
                   spins, events, simOut>>

\* return frames
StreamReturn ==
    /\ simPc = "stream"
    /\ ~(idx < frameCount)
    /\ simPc' = "stream_returned"
    /\ UNCHANGED <<clockVars, storeVars, svcVars, addLog, simIn, simPhysics, frameCount, telemetry,
                   idx, spins, events, simOut>>

NextStream == StreamPush \/ StreamReturn

SpecStream == InitStream /\ [][NextStream]_vars

\* C16: generateTelemetryStream returns exactly floor(d * r) frames, the first
\* timestamp is 0, and consecutive timestamps are strictly increasing and
\* exactly 1000 / r ms apart.
C16_FramesEvenlySpaced ==
    simPc = "stream_returned" =>
        /\ DOMAIN telemetry = 0..(StreamSamples(simIn.duration, simIn.rate) - 1)
        /\ 0 \in DOMAIN telemetry => telemetry[0].timestamp = 0
        /\ \A i \in DOMAIN telemetry :
              (i + 1) \in DOMAIN telemetry =>
                  /\ telemetry[i + 1].timestamp > telemetry[i].timestamp
                  /\ (telemetry[i + 1].timestamp - telemetry[i].timestamp) * simIn.rate = 1000

----------------------------------------------------------------------------
(* The weighted selection on its own, on a weight table that is zero       *)
(* everywhere except at one entry.  Weights are whole numbers, the draw is *)
(* in thousandths, so draw * totalWeight is exact.                         *)

PickWeights == {1000, 3000}

PickValues == {0, 1, 500, 999}

PickInputs ==
    [entry : {"shouldInjectFailure"}, at : 1..Len(FAILURE_TYPES),
     weight : PickWeights, pick : PickValues]
    \cup [entry : {"shouldInjectDroneFailure"}, at : 1..Len(DRONE_FAILURE_TYPES),
          weight : PickWeights, pick : PickValues]

PickTypes(in) ==
    IF in.entry = "shouldInjectFailure" THEN FAILURE_TYPES ELSE DRONE_FAILURE_TYPES

PickScenarios(in) ==
    IF in.entry = "shouldInjectFailure" THEN FAILURE_SCENARIOS ELSE DRONE_FAILURE_SCENARIOS

\* the weights array: in.weight at index in.at, 0 elsewhere
SingleWeight(in) ==
    [k \in 1..Len(PickTypes(in)) |-> IF k = in.at THEN in.weight ELSE 0]

InitPick ==
    /\ InitStore
    /\ InitService
    /\ simIn \in PickInputs
    /\ simPc = "select"
    /\ simPhysics = <<>>
    /\ frameCount = 0
    /\ telemetry = <<>>
    /\ idx = 0
    /\ spins = 0
    /\ events = <<>>
    /\ simOut = NoSimOutput

\* the selection from totalWeight to the return
Select ==
    /\ simPc = "select"
    /\ simOut' = [picked |-> WeightedPick(PickTypes(simIn), PickScenarios(simIn),
                                         SingleWeight(simIn), simIn.pick)]
    /\ simPc' = "selected"
    /\ UNCHANGED <<clockVars, storeVars, svcVars, addLog, simIn, simPhysics, frameCount, telemetry,
                   idx, spins, events>>

NextPick == Select

SpecPick == InitPick /\ [][NextPick]_vars

\* C17: when every weight but one is zero, the selection returns the entry
\* with the non-zero weight, for every draw and wherever the entry sits.
C17_PicksTheOnlyWeightedEntry ==
    simPc = "selected" =>
        /\ simOut.picked # <<>>
        /\ simOut.picked[1].type = PickTypes(simIn)[simIn.at]

----------------------------------------------------------------------------
(* The metrics analyzers on frame sequences of the caller's choosing.  A   *)
(* ground frame carries what analyzeTelemetry reads: pitch and roll in     *)
(* tenths of a degree, the number of contacts with slip_detected, the      *)
(* number of odd- and even-numbered legs in contact, voltage * current in  *)
(* watts, and the temperature in tenths.  A drone frame carries the        *)
(* altitude in tenths of a metre, the mean rotor speed, the GPS quality,   *)
(* roll and pitch in tenths and the battery level in tenths of a percent.  *)

AnalysisFrames ==
    { [pitch |-> 0, roll |-> 0, slips |-> 0, left |-> 3, right |-> 0,
       power |-> 40, temperature |-> 350],
      [pitch |-> 900, roll |-> -450, slips |-> 6, left |-> 3, right |-> 3,
       power |-> 9000, temperature |-> 550],
      [pitch |-> -50, roll |-> 30, slips |-> 1, left |-> 0, right |-> 3,
       power |-> 60, temperature |-> 420] }

DroneAnalysisFrames ==
    { [alt |-> 100, rpm |-> 4500, gps_quality |-> 95, roll |-> 0, pitch |-> 0,
       battery |-> 1000],
      [alt |-> 97, rpm |-> 4700, gps_quality |-> 60, roll |-> 160, pitch |-> -40,
       battery |-> 990],
      [alt |-> 500, rpm |-> 0, gps_quality |-> 0, roll |-> 0, pitch |-> 0,
       battery |-> 50] }

SeqsUpTo(S, n) == UNION { [1..k -> S] : k \in 0..n }

AnalysisInputs ==
    [entry : {"analyzeTelemetry"}, frames : SeqsUpTo(AnalysisFrames, MaxFrames)]
    \cup [entry : {"analyzeDroneTelemetry"}, frames : SeqsUpTo(DroneAnalysisFrames, MaxFrames)]

RECURSIVE SumOver(_, _, _)
SumOver(frames, field, k) ==
    IF k = 0 THEN 0 ELSE SumOver(frames, field, k - 1) + frames[k][field]

RECURSIVE MaxAbsOver(_, _, _)
MaxAbsOver(frames, field, k) ==
    IF k = 0 THEN 0 ELSE Max(MaxAbsOver(frames, field, k - 1), Abs(frames[k][field]))

\* mutant: the lower clamp is missing
NotClamped(x) == x

\* Math.max(0, x)
AtLeastZero(x) == Max(0, x)

\* mutant: analyzeTelemetry without its empty-input branch, the penalties of
\* no frames counted as none: perfect scores
analyzeTelemetryUnguarded(frames) ==
    [stability_score |-> 100, efficiency_score |-> 100, gait_symmetry |-> 100,
     max_pitch_deviation |-> 0, max_roll_deviation |-> 0, slip_events |-> 0,
     total_energy_consumed |-> 0, avg_joint_temperature |-> 0]

\* analyzeTelemetry on the frames themselves; gait_symmetry and
\* total_energy_consumed are in hundredths, the deviations and the
\* temperature in tenths
analyzeTelemetryFrames(frames) ==
    IF Len(frames) = 0 THEN ZeroMetrics
    ELSE
      LET n == Len(frames)
          maxPitch == MaxAbsOver(frames, "pitch", n)
          maxRoll == MaxAbsOver(frames, "roll", n)
          slipEvents == SumOver(frames, "slips", n)
          totalPower == SumOver(frames, "power", n)
          symmetryDiff == Abs(SumOver(frames, "left", n) - SumOver(frames, "right", n))
      IN  [ stability_score |->
                AtLeastZero(Round(1000 * n - (maxPitch + maxRoll) * n - 500 * slipEvents,
                                  10 * n)),
            efficiency_score |->
                Max(0, Min(100, Round(10000 * n - 2 * totalPower, 100 * n))),
            gait_symmetry |-> AtLeastZero(Round(100 * (2 * n - symmetryDiff), 2 * n)),
            max_pitch_deviation |-> maxPitch,
            max_roll_deviation |-> maxRoll,
            slip_events |-> slipEvents,
            total_energy_consumed |-> totalPower,
            avg_joint_temperature |-> Round(SumOver(frames, "temperature", n), n) ]

\* the frames whose roll or pitch differs by more than 3 degrees from the
\* frame before (from 0 for the first)
WindEvents(frames) ==
    Cardinality({ k \in 1..Len(frames) :
        LET prevRoll == IF k = 1 THEN 0 ELSE frames[k - 1].roll
            prevPitch == IF k = 1 THEN 0 ELSE frames[k - 1].pitch
        IN  Abs(frames[k].roll - prevRoll) > 30 \/ Abs(frames[k].pitch - prevPitch) > 30 })

\* |frame.position.alt - hoverAlt| in tenths of a metre
AltDeviation(frame) == Abs(frame.alt - 100)

\* analyzeDroneTelemetry on the frames themselves; max_altitude_deviation is
\* in tenths of a metre
analyzeDroneTelemetryFrames(frames) ==
    IF Len(frames) = 0 THEN ZeroDroneMetrics
    ELSE
      LET n == Len(frames)
          devs == [k \in 1..n |-> [dev |-> AltDeviation(frames[k])]]
          maxAltDeviation == MaxAbsOver(devs, "dev", n)
          withinThreshold == Cardinality({k \in 1..n : AltDeviation(frames[k]) < 5})
          actualDrain == frames[1].battery - frames[n].battery
      IN  [ hover_accuracy |-> Round(100 * withinThreshold, n),
            altitude_stability |-> AtLeastZero(100 - maxAltDeviation),
            battery_efficiency |-> Min(100, Round(2 * n, Max(actualDrain, 1))),
            wind_compensation_events |-> Min(WindEvents(frames), 10),
            max_altitude_deviation |-> maxAltDeviation,
            avg_rotor_rpm |-> Round(SumOver(frames, "rpm", n), n),
            gps_quality_avg |-> Round(SumOver(frames, "gps_quality", n), n) ]

InitAnalysis ==
    /\ InitStore
    /\ InitService
    /\ simIn \in AnalysisInputs
    /\ simPc = "analyze"
    /\ simPhysics = <<>>
    /\ frameCount = Len(simIn.frames)
    /\ telemetry = <<>>
    /\ idx = 0
    /\ spins = 0
    /\ events = <<>>
    /\ simOut = NoSimOutput

Analyze ==
    /\ simPc = "analyze"
    /\ simIn.entry = "analyzeTelemetry"
    /\ simOut' = [metrics |-> analyzeTelemetryFrames(simIn.frames)]
    /\ simPc' = "analyzed"
    /\ UNCHANGED <<clockVars, storeVars, svcVars, addLog, simIn, simPhysics, frameCount, telemetry,
                   idx, spins, events>>

AnalyzeDrone ==
    /\ simPc = "analyze"
    /\ simIn.entry = "analyzeDroneTelemetry"
    /\ simOut' = [metrics |-> analyzeDroneTelemetryFrames(simIn.frames)]
    /\ simPc' = "analyzed"
    /\ UNCHANGED <<clockVars, storeVars, svcVars, addLog, simIn, simPhysics, frameCount, telemetry,
                   idx, spins, events>>

NextAnalysis == Analyze \/ AnalyzeDrone

SpecAnalysis == InitAnalysis /\ [][NextAnalysis]_vars

\* C18: on a non-empty frame sequence analyzeTelemetry returns stability_score
\* in [0,100] and gait_symmetry in [0,1], and analyzeDroneTelemetry returns
\* altitude_stability in [0,100].
C18_ScoresInRange ==
    (simPc = "analyzed" /\ frameCount > 0) =>
        IF simIn.entry = "analyzeTelemetry"
        THEN /\ simOut.metrics.stability_score \in 0..100
             /\ simOut.metrics.gait_symmetry \in 0..100
        ELSE simOut.metrics.altitude_stability \in 0..100

\* the frames pitch to 90 degrees and slip on every leg, and the score is 0
C18_Witness ==
    /\ simPc = "analyzed"
    /\ simIn.entry = "analyzeTelemetry"
    /\ frameCount > 0
    /\ MaxAbsOver(simIn.frames, "pitch", frameCount) = 900
    /\ simOut.metrics.stability_score = 0

\* C19: on the empty frame sequence each analyzer returns a record whose
\* fields are all 0.
C19_EmptyGivesZeroMetrics ==
    (simPc = "analyzed" /\ frameCount = 0) =>
        /\ \A f \in DOMAIN simOut.metrics : simOut.metrics[f] = 0
        /\ DOMAIN simOut.metrics =
              IF simIn.entry = "analyzeTelemetry"
              THEN DOMAIN ZeroMetrics ELSE DOMAIN ZeroDroneMetrics

\* analyzeTelemetry has returned for the empty sequence
C19_Witness ==
    /\ simPc = "analyzed"
    /\ simIn.entry = "analyzeTelemetry"
    /\ simIn.frames = <<>>
    /\ simOut.metrics.avg_joint_temperature = 0

----------------------------------------------------------------------------
(* The recommendation generators.  A recommendation is its text with the   *)
(* interpolated value (hundredths) and name; two recommendations are the   *)
(* same string exactly when the three agree.  An event carries its type    *)
(* and data.affectedComponents[0], <<>> when absent.                       *)

Advice(text) == [text |-> text, value |-> 0, name |-> ""]

RecEvent(type) == [type |-> type, component |-> <<>>]

RecEvents ==
    { RecEvent(t) : t \in {"slip", "overheat", "stability_warning", "rollover",
                             "gait_mismatch", "sensor_noise"} }
    \cup { [type |-> "gait_mismatch", component |-> <<"leg_1">>] }

DroneRecEvents == { RecEvent(DRONE_FAILURE_TYPES[k]) : k \in DOMAIN DRONE_FAILURE_TYPES }

DroneRecPhysics == { DEFAULT_DRONE_PHYSICS, [DEFAULT_DRONE_PHYSICS EXCEPT !.wind_speed = 80] }

RecInputs ==
    [entry : {"generateRecommendations"}, events : SeqsUpTo(RecEvents, MaxRecEvents),
     physics : SimPhysics]
    \cup [entry : {"generateDroneRecommendations"},
          events : SeqsUpTo(DroneRecEvents, MaxRecEvents), physics : DroneRecPhysics]

\* the strings pushed for one ground event
EventAdvice(event, physics) ==
    CASE event.type = "slip" ->
           (IF physics.friction_coefficient < 70
            THEN << [text |-> "Increase friction_coefficient to",
                     value |-> Min(100, physics.friction_coefficient + 15),
                     name |-> physics.terrain_type] >>
            ELSE <<>>)
           \o << Advice("Consider reducing gait speed during stance phase") >>
      [] event.type = "overheat" ->
           << Advice("Reduce pid_p gain to decrease motor effort"),
              Advice("Consider implementing thermal throttling") >>
      [] event.type \in {"stability_warning", "rollover"} ->
           << Advice("Lower center of mass by reducing femur joint angles"),
              Advice("Increase pid_d on affected legs to dampen oscillations") >>
      [] event.type = "gait_mismatch" ->
           << [text |-> "Reduce pid_p on _femur to dampen oscillation", value |-> 0,
               name |-> IF event.component = <<>> THEN "leg_2" ELSE event.component[1]],
              Advice("Verify gait timing synchronization") >>
      [] OTHER -> <<>>

\* the strings pushed for one drone event
DroneEventAdvice(event, physics) ==
    CASE event.type = "motor_failure" ->
           << Advice("Check motor and ESC connections for affected rotor"),
              Advice("Calibrate ESCs to ensure synchronized response") >>
      [] event.type = "gps_loss" ->
           << Advice("Consider GPS/visual odometry fusion for improved positioning"),
              Advice("Avoid flying near structures that cause multipath interference") >>
      [] event.type = "low_battery" ->
           << Advice("Reduce flight time or use higher capacity battery"),
              Advice("Monitor power consumption and optimize flight profile") >>
      [] event.type = "signal_lost" ->
           << Advice("Check antenna alignment and orientation"),
              Advice("Consider using diversity receiver for better coverage") >>
      [] event.type = "wind_warning" ->
           << Advice("Increase roll PID gains for better wind rejection"),
              Advice("Reduce flight altitude in gusty conditions") >>
           \o (IF physics.wind_speed > 50
               THEN << Advice("Consider postponing flight until wind conditions improve") >>
               ELSE <<>>)
      [] event.type = "geofence_breach" ->
           << Advice("Review and expand geofence boundaries if safe"),
              Advice("Enable automatic return-to-home at boundary") >>
      [] event.type = "obstacle_detected" ->
           << Advice("Verify obstacle avoidance sensor calibration"),
              Advice("Increase minimum safe distance parameter") >>
      [] event.type = "flyaway" ->
           << Advice("Check compass calibration and magnetic interference"),
              Advice("Verify failsafe settings are configured correctly"),
              Advice("Review flight logs for root cause analysis") >>
      [] OTHER -> <<>>

RECURSIVE Pushed(_, _, _, _)
Pushed(evs, physics, aerial, k) ==
    IF k = 0 THEN <<>>
    ELSE Pushed(evs, physics, aerial, k - 1)
         \o (IF aerial THEN DroneEventAdvice(evs[k], physics)
             ELSE EventAdvice(evs[k], physics))

Range(seq) == { seq[k] : k \in DOMAIN seq }

\* [...new Set(seq)] on the first k elements: first occurrences, in order
RECURSIVE Distinct(_, _)
Distinct(seq, k) ==
    IF k = 0 THEN <<>>
    ELSE LET before == Distinct(seq, k - 1)
         IN  IF seq[k] \in Range(before) THEN before ELSE Append(before, seq[k])

\* .slice(0, 5)
FirstFive(seq) == SubSeq(seq, 1, Min(Len(seq), 5))

generateRecommendations(evs, physics) ==
    LET recommendations == Pushed(evs, physics, FALSE, Len(evs))
    IN  FirstFive(Distinct(recommendations, Len(recommendations)))

generateDroneRecommendations(evs, physics) ==
    LET recommendations == Pushed(evs, physics, TRUE, Len(evs))
    IN  FirstFive(Distinct(recommendations, Len(recommendations)))

InitRec ==
    /\ InitStore
    /\ InitService
    /\ simIn \in RecInputs
    /\ simPc = "recommend"
    /\ simPhysics = <<>>
    /\ frameCount = 0
    /\ telemetry = <<>>
    /\ idx = 0
    /\ spins = 0
    /\ events = <<>>
    /\ simOut = NoSimOutput

Recommend ==
    /\ simPc = "recommend"
    /\ simIn.entry = "generateRecommendations"
    /\ simOut' = [recommendations |-> generateRecommendations(simIn.events, simIn.physics)]
    /\ simPc' = "recommended"
    /\ UNCHANGED <<clockVars, storeVars, svcVars, addLog, simIn, simPhysics, frameCount, telemetry,
                   idx, spins, events>>

RecommendDrone ==
    /\ simPc = "recommend"
    /\ simIn.entry = "generateDroneRecommendations"
    /\ simOut' = [recommendations |->
                      generateDroneRecommendations(simIn.events, simIn.physics)]
    /\ simPc' = "recommended"
    /\ UNCHANGED <<clockVars, storeVars, svcVars, addLog, simIn, simPhysics, frameCount, telemetry,
                   idx, spins, events>>

NextRec == Recommend \/ RecommendDrone

SpecRec == InitRec /\ [][NextRec]_vars

NoDuplicates(seq) == Cardinality(Range(seq)) = Len(seq)

\* C20: the returned recommendations hold no string twice; the ground
\* generator returns at most 5 of them and the aerial generator at most 4.
C20_DistinctAndCapped ==
    simPc = "recommended" =>
        /\ NoDuplicates(simOut.recommendations)
        /\ Len(simOut.recommendations) <=
              (IF simIn.entry = "generateRecommendations" THEN 5 ELSE 4)

----------------------------------------------------------------------------
(* Run ids.  Time is in seconds: generateRunId reads                       *)
(* Math.floor(Date.now() / 1000) and appends four base-36 digits of        *)
(* Math.random().  A ground run_simulation call sleeps 2000 to 4500 ms     *)
(* before it creates its id; calls on one session may overlap.             *)

\* randomDelay(2000, 4500), as the number of whole seconds the wake-up lies
\* after the second of the call
RunDelays == {2, 3, 4}

\* session.last_accessed = Date.now() (created_at on creation)
Touch(la, sessionId, t) ==
    [s \in (DOMAIN la) \cup {sessionId} |-> IF s = sessionId THEN t ELSE la[s]]

generateRunId(timestamp, random) == <<"sim", timestamp, random>>

\* getRun: session?.runs.find(r => r.run_id === runId)
getRun(st, sessionId, runId) ==
    IF sessionId \notin DOMAIN st.sessions THEN <<>>
    ELSE LET runs == st.sessions[sessionId].runs
             hits == {k \in DOMAIN runs : runs[k].run_id = runId}
         IN  IF hits = {} THEN <<>>
             ELSE <<runs[CHOOSE k \in hits : \A h \in hits : k <= h]>>

\* runSimulation up to await sleep(delay)
RunSleeps(sessionId) ==
    /\ started < MaxRunCalls
    /\ \E delay \in RunDelays :
         running' = running \cup
             {[call |-> started + 1, session |-> sessionId, wake |-> now + delay]}
    /\ started' = started + 1
    /\ UNCHANGED <<clockVars, storeVars, calls, returned, motorLog, addLog, simVars>>

\* runSimulation from the wake-up to the return: the id is created, the run
\* is stored under it and the id is returned
RunWakes(r) ==
    /\ r \in running
    /\ now >= r.wake
    /\ \E random \in RunSuffixes :
         LET run == [run_id |-> generateRunId(now, random), call |-> r.call]
             s1 == addRun(Store, r.session, run)
         IN  /\ sessions' = s1.sessions
             /\ motorMaps' = s1.heap
             /\ returned' = [tool |-> "run_simulation", session |-> r.session,
                             success |-> TRUE, result |-> [run_id |-> run.run_id]]
    /\ lastAccessed' = Touch(lastAccessed, r.session, now)
    /\ running' = running \ {r}
    /\ UNCHANGED <<now, calls, started, motorLog, addLog, simVars>>

\* a second passes
SecondPasses ==
    /\ now < MaxSeconds
    /\ now' = now + 1
    /\ UNCHANGED <<lastAccessed, storeVars, svcVars, addLog, simVars>>

NextRunId ==
    \/ \E s \in SessionIds : RunSleeps(s)
    \/ \E r \in running : RunWakes(r)
    \/ SecondPasses

SpecRunId == Init /\ [][NextRunId]_vars

\* C21: the runs of one session's history have pairwise distinct run_id
\* values, so getRun with the id a call returned gives the run of that call.
C21_RunIdsDistinct ==
    /\ \A s \in DOMAIN sessions :
         \A i, j \in DOMAIN sessions[s].runs :
            i # j => sessions[s].runs[i].run_id # sessions[s].runs[j].run_id
    /\ returned # NoEnvelope =>
         LET found == getRun(Store, returned.session, returned.result.run_id)
         IN  found # <<>> /\ found[1] = sessions[returned.session].current_run[1]

----------------------------------------------------------------------------
(* TTL eviction.  Time is in milliseconds; it advances by one session      *)
(* lifetime or by one lifetime and a millisecond, so that a session is     *)
(* seen exactly at and just past its TTL.  Every public method of the      *)
(* store is an action; simPc names the method that ran last, simIn its     *)
(* session and simOut what the last cleanup pass returned.                 *)

SESSION_TTL_MS == 1800000

TimeSteps == {SESSION_TTL_MS, SESSION_TTL_MS + 1}

\* mutant: a session is dropped as soon as its age reaches the TTL
ExpiredAtTtl(last, t) == t - last >= SESSION_TTL_MS

\* now - session.last_accessed > SESSION_TTL_MS
Expired(last, t) == t - last > SESSION_TTL_MS

AccessOps ==
    {"get", "getOrCreate", "updatePhysics", "updateMotor", "addRun", "getRun",
     "getLatestRun"}

\* the store after a method that went through getOrCreate or get on
\* sessionId and left the store st
Accessed(op, sessionId, st) ==
    /\ sessions' = st.sessions
    /\ motorMaps' = st.heap
    /\ lastAccessed' = IF sessionId \in DOMAIN st.sessions
                       THEN Touch(lastAccessed, sessionId, now)
                       ELSE lastAccessed
    /\ simPc' = op
    /\ simIn' = [entry |-> op, session |-> sessionId]
    /\ simOut' = NoSimOutput
    /\ UNCHANGED <<now, svcVars, addLog, simPhysics, frameCount, telemetry, idx, spins,
                   events>>

CallGet(sessionId) == Accessed("get", sessionId, Store)

CallGetOrCreate(sessionId) == Accessed("getOrCreate", sessionId, getOrCreate(Store, sessionId))

CallUpdatePhysics(sessionId) ==
    Accessed("updatePhysics", sessionId,
             updatePhysics(Store, sessionId, [friction_coefficient |-> 30]))

CallUpdateMotor(sessionId) ==
    Accessed("updateMotor", sessionId,
             updateMotor(Store, sessionId, "leg_1_coxa", [pid_p |-> <<200>>]))

CallAddRun(sessionId) ==
    /\ sessionId \in DOMAIN sessions => Len(sessions[sessionId].runs) < MaxStoredRuns
    /\ Accessed("addRun", sessionId,
                addRun(Store, sessionId, [run_id |-> generateRunId(0, "a1b2")]))

CallGetRun(sessionId) == Accessed("getRun", sessionId, Store)

CallGetLatestRun(sessionId) == Accessed("getLatestRun", sessionId, Store)

\* cleanup: every expired session is deleted; the number deleted is returned.
\* The motors Map of a deleted session is referred to by nothing any more:
\* its reference stays used, its content is gone.
Cleanup ==
    LET kept == {s \in DOMAIN sessions : ~Expired(lastAccessed[s], now)}
        live == {sessions[s].motors : s \in kept}
    IN  /\ sessions' = [s \in kept |-> sessions[s]]
        /\ lastAccessed' = [s \in kept |-> lastAccessed[s]]
        /\ motorMaps' = [r \in DOMAIN motorMaps |->
                            IF r \in live THEN motorMaps[r] ELSE <<>>]
        /\ simPc' = "cleanup"
        /\ simIn' = [entry |-> "cleanup"]
        /\ simOut' = [cleaned |-> Cardinality(DOMAIN sessions) - Cardinality(kept)]
        /\ UNCHANGED <<now, svcVars, addLog, simPhysics, frameCount, telemetry,
                       idx, spins, events>>

TimePasses(step) ==
    /\ now + step <= MaxTtlPeriods * (SESSION_TTL_MS + 1)
    /\ now' = now + step
    /\ simPc' = "idle"
    /\ simIn' = NoSimInput
    /\ simOut' = NoSimOutput
    /\ UNCHANGED <<lastAccessed, storeVars, svcVars, addLog, simPhysics, frameCount,
                   telemetry, idx, spins, events>>

NextTtl ==
    \/ \E s \in SessionIds : CallGet(s)
    \/ \E s \in SessionIds : CallGetOrCreate(s)
    \/ \E s \in SessionIds : CallUpdatePhysics(s)
    \/ \E s \in SessionIds : CallUpdateMotor(s)
    \/ \E s \in SessionIds : CallAddRun(s)
    \/ \E s \in SessionIds : CallGetRun(s)
    \/ \E s \in SessionIds : CallGetLatestRun(s)
    \/ Cleanup
    \/ \E step \in TimeSteps : TimePasses(step)

SpecTtl == Init /\ [][NextTtl]_vars

\* a session as createDefaultSession leaves it
FreshSession(session, heap) ==
    /\ session.physics = DEFAULT_PHYSICS
    /\ DOMAIN heap[session.motors] = HEXAPOD_JOINTS
    /\ \A j \in HEXAPOD_JOINTS :
         heap[session.motors][j] = Spread([joint_id |-> j], DEFAULT_MOTOR_PARAMS)
    /\ session.runs = <<>>
    /\ session.current_run = <<>>

\* C22: a cleanup pass removes exactly the sessions last accessed more than
\* 30 minutes before it and leaves the others as they are; every store access
\* sets the session's last-access time to the time of the access; no other
\* step removes a session; and getOrCreate for an id that is not in the store
\* (never created, or evicted) yields a fresh default session.
C22_TtlEviction ==
    [][ /\ simPc' = "cleanup" =>
             /\ DOMAIN sessions' =
                    {s \in DOMAIN sessions : now - lastAccessed[s] <= SESSION_TTL_MS}
             /\ \A s \in DOMAIN sessions' : sessions'[s] = sessions[s]
        /\ simPc' # "cleanup" => DOMAIN sessions \subseteq DOMAIN sessions'
        /\ (simPc' \in AccessOps /\ simIn'.session \in DOMAIN sessions') =>
             lastAccessed'[simIn'.session] = now'
        /\ (simPc' = "getOrCreate" /\ simIn'.session \notin DOMAIN sessions) =>
             FreshSession(sessions'[simIn'.session], motorMaps')
      ]_vars

\* a cleanup pass has evicted one session and kept the other
C22_Witness ==
    /\ simPc = "cleanup"
    /\ simOut.cleaned = 1
    /\ DOMAIN sessions # {}

----------------------------------------------------------------------------
(* Further properties of the event generators, under SpecSim *)

\* C23: in both generators an injected event is pushed only when the events
\* before it in the array (those of earlier sample points and the rule-based
\* ones of its own) hold no critical event and fewer than 3 of severity
\* warning or error; so no injected event follows a critical event, and at
\* most one injected event is critical.
C23_InjectionStopsAfterFailures ==
    /\ \A j \in DOMAIN events :
         events[j].injected =>
            /\ \A k \in 1..(j - 1) : events[k].severity # "critical"
            /\ Cardinality({k \in 1..(j - 1) : events[k].severity \in {"warning", "error"}}) < 3
    /\ Cardinality({j \in DOMAIN events :
                       events[j].injected /\ events[j].severity = "critical"}) <= 1

\* an injected critical event is followed by events of later sample points,
\* at which the injector was called again
C23_Witness ==
    \E j \in DOMAIN events :
        /\ events[j].injected
        /\ events[j].severity = "critical"
        /\ \E k \in DOMAIN events : k > j /\ events[k].at > events[j].at

\* the frame indices the sampling loop has visited
SampledIndices == DOMAIN telemetry

\* C24: for a frame sequence of length at least 10 a generator applies its
\* checks at exactly 10 frame indices, and those are evenly spaced.
C24_TenEvenSamplePoints ==
    (GeneratorReturned /\ frameCount >= 10) =>
        /\ Cardinality(SampledIndices) = 10
        /\ \E first \in 0..frameCount, step \in 1..frameCount :
              SampledIndices = {first + step * k : k \in 0..9}

----------------------------------------------------------------------------
(* generateDroneTelemetryStream: the flight phases, the waypoint index and *)
(* the rotor speeds, frame by frame.  Durations are whole seconds and the  *)
(* phase limits are compared exactly (t < 0.15 * d is 20 * i < 3 * d * r   *)
(* for t = i / r).  The position and the altitude are not followed: what   *)
(* the loop reads from them (the waypoint is near, the movement boost, the *)
(* drone is above 0.5 m) is any value.  A Gaussian draw is z0 in           *)
(* hundredths; Math.random() lies in [0, 1), so |z0| is at most            *)
(* sqrt(-2 ln 2^-53) = 8.57, or u1 is 0 and z0 is infinite.                *)

\* stands for JavaScript's Infinity: beyond every finite quantity of the model
Infinity == 1000000

GaussianDraws == {-Infinity, -857, 0, 857, Infinity}

\* gaussianNoise(mean, stdDev) for the draw z0
gaussianNoise(mean, stdDev, z0) == Round(z0 * stdDev, 100) + mean

FlightInputs ==
    [duration : 1..MaxFlightSeconds, rate : {10}] \cup {[duration |-> 1, rate |-> 7]}

\* the draws of the four rotors of one frame: one rotor's draw is any, the
\* others' are 0
RotorDraws ==
    { [r \in 1..4 |-> IF r = k THEN z0 ELSE 0] : k \in 1..4, z0 \in GaussianDraws }

MovementBoosts == {0, 400}

FlightSamples == simIn.duration * simIn.rate

\* the phase of frame i
FlightPhase(i) ==
    LET dr == simIn.duration * simIn.rate
    IN  IF 20 * i < 3 * dr THEN "takeoff"
        ELSE IF 5 * i < 2 * dr THEN "hover"
        ELSE IF 5 * i < 4 * dr THEN "waypoint"
        ELSE "land"

\* hoverRPM + gaussianNoise(0, 100)
HoverSpeed(z0) == gaussianNoise(4500, 100, z0)

\* one rotor's speed in frame i, before Math.round
RotorSpeed(i, z0, movementBoost, aloft) ==
    LET dr == simIn.duration * simIn.rate
        phase == FlightPhase(i)
    IN  CASE phase = "takeoff" ->
               clamp(gaussianNoise(1000 + Round(3500 * 20 * i, 3 * dr), 50, z0), 1000, 8000)
          [] phase = "hover" -> HoverSpeed(z0)
          [] phase = "waypoint" ->
               clamp(gaussianNoise(4500 + movementBoost * 10, 150, z0), 1000, 8000)
          [] phase = "land" ->
               clamp(gaussianNoise(4500 - Round(2700 * (5 * i - 4 * dr), dr), 50, z0),
                     IF aloft THEN 1000 ELSE 0, 8000)

\* mutant: the waypoint index advances whenever the waypoint is near
AdvanceUnbounded(currentWaypoint, near) ==
    IF near THEN currentWaypoint + 1 ELSE currentWaypoint

\* if (dist < 0.00002 && currentWaypoint < waypoints.length - 1) currentWaypoint++
AdvanceWaypoint(currentWaypoint, near) ==
    IF near /\ currentWaypoint < 3 THEN currentWaypoint + 1 ELSE currentWaypoint

InitFlight ==
    /\ InitStore
    /\ InitService
    /\ simIn \in FlightInputs
    /\ simPc = "flying"
    /\ simPhysics = <<>>
    /\ frameCount = 0
    /\ telemetry = <<>>
    /\ idx = 0
    /\ spins = 0
    /\ events = <<>>
    /\ simOut = [currentWaypoint |-> 0]

\* one iteration of the frame loop; simOut is the frame pushed, with the
\* phase and the waypoint index it was made in
FlightFrame ==
    /\ simPc = "flying"
    /\ idx < FlightSamples
    /\ \E near, aloft \in BOOLEAN, movementBoost \in MovementBoosts,
          z \in RotorDraws :
         LET phase == FlightPhase(idx)
             currentWaypoint ==
                 IF phase = "waypoint"
                 THEN AdvanceWaypoint(simOut.currentWaypoint, near)
                 ELSE simOut.currentWaypoint
         IN  simOut' = [ timestamp |-> StreamTimestamp(idx, simIn.rate),
                         phase |-> phase,
                         currentWaypoint |-> currentWaypoint,
                         rotor_speeds |->
                             [r \in 1..4 |-> RotorSpeed(idx, z[r], movementBoost, aloft)] ]
    /\ idx' = idx + 1
    /\ frameCount' = frameCount + 1
    /\ UNCHANGED <<clockVars, storeVars, svcVars, addLog, simIn, simPc, simPhysics,
                   telemetry, spins, events>>

FlightReturn ==
    /\ simPc = "flying"
    /\ ~(idx < FlightSamples)
    /\ simPc' = "flown"
    /\ UNCHANGED <<clockVars, storeVars, svcVars, addLog, simIn, simPhysics, frameCount,
                   telemetry, idx, spins, events, simOut>>

NextFlight == FlightFrame \/ FlightReturn

SpecFlight == InitFlight /\ [][NextFlight]_vars

PhaseRank(phase) ==
    CASE phase = "takeoff" -> 1 [] phase = "hover" -> 2 [] phase = "waypoint" -> 3
      [] phase = "land" -> 4

\* C25: the phase of a frame follows from the fraction i / (d * r) of the
\* flight alone (takeoff below 0.15, hover below 0.40, waypoint below 0.80,
\* landing from there), from one frame to the next the phase never moves
\* back, and the waypoint index never decreases and stays within 0..3.
C25_PhasesMoveForward ==
    [][ frameCount' > frameCount =>
          LET i == idx
              total == FlightSamples
          IN  /\ simOut'.phase =
                    (IF 100 * i < 15 * total THEN "takeoff"
                     ELSE IF 100 * i < 40 * total THEN "hover"
                     ELSE IF 100 * i < 80 * total THEN "waypoint"
                     ELSE "land")
              /\ frameCount > 0 => PhaseRank(simOut'.phase) >= PhaseRank(simOut.phase)
              /\ simOut'.currentWaypoint >= simOut.currentWaypoint
              /\ simOut'.currentWaypoint \in 0..3
      ]_vars

\* the flight has reached its landing phase with the last waypoint current
C25_Witness ==
    /\ frameCount > 0
    /\ simOut.phase = "land"
    /\ simOut.currentWaypoint = 3

\* C26: every rotor speed of every frame lies in [1000, 8000].
C26_RotorSpeedsInRange ==
    frameCount > 0 => \A r \in 1..4 : simOut.rotor_speeds[r] \in 1000..8000

----------------------------------------------------------------------------
(* Further properties of execute, under SpecExec *)

\* the code of the error execute returned ("" when it returned a result or
\* the route rejected the request)
ErrorCode(envelope) ==
    IF "http" \notin DOMAIN envelope THEN ""
    ELSE IF envelope.http # 200 THEN ""
    ELSE IF envelope.body.success THEN ""
    ELSE envelope.body.error.code

\* C27: update_motor_params without a joint_id returns MISSING_PARAM and an
\* unknown tool name returns UNKNOWN_TOOL, and a call that ends in either
\* error leaves the store as it was: no session is created and no session's
\* physics, motors, run history or current_run changes.  (A step that starts
\* a request and leaves none running is one that answered it.)
C27_InputErrorsLeaveStoreAlone ==
    [][ (started' > started /\ running' = {}) =>
          /\ (IF "http" \notin DOMAIN returned' THEN FALSE
              ELSE IF returned'.http # 200 THEN FALSE
              ELSE /\ returned'.request.toolName = "update_motor_params"
                   /\ Arg(returned'.request.args, "joint_id") = <<>>)
                => ErrorCode(returned') = "MISSING_PARAM"
          /\ (IF "http" \notin DOMAIN returned' THEN FALSE
              ELSE IF returned'.http # 200 THEN FALSE
              ELSE returned'.request.toolName = "fly_to_the_moon")
                => ErrorCode(returned') = "UNKNOWN_TOOL"
          /\ ErrorCode(returned') \in {"MISSING_PARAM", "UNKNOWN_TOOL"} =>
                /\ sessions' = sessions
                /\ motorMaps' = motorMaps
                /\ addLog' = addLog
      ]_vars

\* update_motor_params without a joint_id was answered with MISSING_PARAM
\* while the session existed with a physics config of its own
C27_Witness ==
    /\ ErrorCode(returned) = "MISSING_PARAM"
    /\ ExecSession \in DOMAIN sessions
    /\ sessions[ExecSession].physics # DEFAULT_PHYSICS

----------------------------------------------------------------------------
(* Ground runs on generated telemetry, under SpecSim *)

GroundRun == simIn.entry = "run_simulation" /\ ~Aerial(simIn)

\* C28: on the telemetry generateTelemetryStream produces the rollover rule
\* fires at no sampled frame; so in a ground run_simulation every critical
\* event is an injected rollover, there is at most one critical event, and
\* the run fails only when the list holds an injected critical event.
C28_GroundRunsFailOnlyByInjection ==
    GroundRun =>
        /\ \A i \in DOMAIN telemetry :
              Abs(telemetry[i].pitch) <= 300 /\ Abs(telemetry[i].roll) <= 250
        /\ \A k \in DOMAIN events :
              events[k].severity = "critical" =>
                  events[k].injected /\ events[k].type = "rollover"
        /\ Cardinality({k \in DOMAIN events : events[k].severity = "critical"}) <= 1
        /\ (simPc = "returned" /\ simOut.envelope.success) =>
              (simOut.envelope.result.status = "failed" =>
                  \E k \in DOMAIN simOut.events :
                      simOut.events[k].injected /\ simOut.events[k].severity = "critical")

\* a ground run sampled a frame at the pitch clamp and failed on an injected
\* rollover
C28_Witness ==
    /\ GroundRun
    /\ simPc = "returned"
    /\ simOut.envelope.success
    /\ simOut.envelope.result.status = "failed"
    /\ \E i \in DOMAIN telemetry : telemetry[i].pitch = 300


----------------------------------------------------------------------------
(* Aerial and ground run_simulation against the session store, under SpecExec *)

\* the step answered a run_simulation request through execute
RunAnswered(env) ==
    IF "http" \notin DOMAIN env THEN FALSE
    ELSE env.http = 200 /\ env.request.toolName = "run_simulation"

\* the runs the store holds for a session ("no session" holds none)
RunsOf(ss, sessionId) ==
    IF sessionId \in DOMAIN ss THEN ss[sessionId].runs ELSE <<>>

\* C29: an aerial run_simulation call (robot_type drone, uav, quadcopter or
\* aerial) creates no session, leaves every session as it was and records no
\* run, so getRun finds nothing under the flight run_id it returned; a ground
\* run_simulation call that returns appends exactly one run, the one whose
\* run_id it returned, to its session's history.  (A step that starts a
\* request and leaves none running is one that answered it.)
C29_AerialRunsSkipTheStore ==
    [][ (started' > started /\ running' = {} /\ RunAnswered(returned')) =>
          LET req == returned'.request
              sid == req.sessionId
          IN  IF isDrone(req.args)
              THEN /\ sessions' = sessions
                   /\ motorMaps' = motorMaps
                   /\ addLog' = addLog
                   /\ returned'.body.success =>
                         getRun([sessions |-> sessions', heap |-> motorMaps'], sid,
                                returned'.body.result.run_id) = <<>>
              ELSE returned'.body.success =>
                     /\ sid \in DOMAIN sessions'
                     /\ Len(RunsOf(sessions', sid)) = Len(RunsOf(sessions, sid)) + 1
                     /\ SubSeq(RunsOf(sessions', sid), 1, Len(RunsOf(sessions, sid)))
                           = RunsOf(sessions, sid)
                     /\ RunsOf(sessions', sid)[Len(RunsOf(sessions', sid))].run_id
                           = returned'.body.result.run_id
                     /\ \A other \in DOMAIN sessions' \ {sid} :
                           /\ other \in DOMAIN sessions
                           /\ sessions'[other] = sessions[other]
      ]_vars

\* an aerial run_simulation was answered with a flight run_id while the
\* session held the run of an earlier ground run_simulation
C29_Witness ==
    /\ RunAnswered(returned)
    /\ isDrone(returned.request.args)
    /\ returned.body.success
    /\ returned.body.result.run_id[1] = "flight"
    /\ Len(RunsOf(sessions, ExecSession)) = 1


----------------------------------------------------------------------------
(* The stability check of generateSimulationEvents on one frame, over      *)
(* pitches on both sides of level                                          *)

\* body pitch in tenths of a degree, at and around the 20, 25 and 30 degree
\* thresholds on either side
Pitches ==
    {-350, -300, -280, -251, -250, -220, -201, -200, 0,
     200, 201, 220, 250, 251, 280, 300, 350}

PitchFrames ==
    [slip : BOOLEAN, pitch : Pitches, roll : {0, 150}, temperature : {400, 510}]

InitPitch ==
    /\ InitStore
    /\ InitService
    /\ simIn \in [entry : {"generateSimulationEvents"}, frame : PitchFrames]
    /\ simPc = "generate"
    /\ simPhysics = DEFAULT_PHYSICS
    /\ frameCount = 1
    /\ telemetry = <<>>
    /\ idx = 0
    /\ spins = 0
    /\ events = <<>>
    /\ simOut = NoSimOutput

\* one pass of the loop body up to the injector, on the frame at hand
CheckFrame ==
    /\ simPc = "generate"
    /\ idx = 0
    /\ LET frame == Stamp(simIn.frame, 1)
       IN  /\ telemetry' = <<frame>>
           /\ events' = FrameEvents(frame, 1)
    /\ idx' = 1
    /\ simPc' = "checked"
    /\ UNCHANGED <<clockVars, storeVars, svcVars, addLog, simIn, simPhysics,
                   frameCount, spins, simOut>>

NextPitch == CheckFrame

SpecPitch == InitPitch /\ [][NextPitch]_vars

====
